---- MODULE Spec2Model ----
(***************************************************************************)
(* A model of the NetworkGraph view (src/components/network-graph.tsx):    *)
(* the force simulation, the reconciliation of incoming graphs with the    *)
(* simulation state, the animation loop, the network fetches and the       *)
(* pointer interaction layer.                                              *)
(*                                                                         *)
(* Numbers.  JavaScript numbers are modelled in fixed point: one pixel (or *)
(* one world unit) is SCALE model units, and every product and quotient is *)
(* rounded toward zero to a whole model unit.  A value that is not finite  *)
(* (NaN, +Infinity, -Infinity) is the single value NaN: it is absorbing    *)
(* under arithmetic, fails isFinite and makes every comparison false.      *)
(*                                                                         *)
(* React.  A handler reads the state of the latest render and its state    *)
(* updates take effect together in the render that follows it; an action   *)
(* of the model is the handler followed by that render and by the effects  *)
(* whose dependencies changed.  The continuation of an await is an action  *)
(* of its own.  The view's username never changes while it is mounted      *)
(* (src/app/page.tsx mounts the view only with a username and unmounts it  *)
(* to change it), so the branches for a missing username are left out.     *)
(***************************************************************************)
EXTENDS Integers, Sequences, FiniteSets, TLC

----------------------------------------------------------------------------
(* Numbers *)

SCALE == 100

NaN == 2000000000

Px(p) == p * SCALE

Abs(a) == IF a < 0 THEN -a ELSE a

\* Integer quotient rounded toward zero (b # 0).
Quot(a, b) ==
  LET q == Abs(a) \div Abs(b)
  IN IF (a < 0) = (b < 0) THEN q ELSE -q

IsFinite(a) == a # NaN

FAdd(a, b) == IF a = NaN \/ b = NaN THEN NaN ELSE a + b

FSub(a, b) == IF a = NaN \/ b = NaN THEN NaN ELSE a - b

\* a * b, both in model units.
FMul(a, b) == IF a = NaN \/ b = NaN THEN NaN ELSE Quot(a * b, SCALE)

\* a * (num / den) for a constant num/den of the source (0.99, 0.0001, ...).
FScale(a, num, den) == IF a = NaN THEN NaN ELSE Quot(a * num, den)

\* a / b; a division by zero gives a non-finite value.
FDiv(a, b) ==
  IF a = NaN \/ b = NaN \/ b = 0 THEN NaN ELSE Quot(a * SCALE, b)

FLt(a, b) == a # NaN /\ b # NaN /\ a < b

FLe(a, b) == a # NaN /\ b # NaN /\ a <= b

FMax(a, b) == IF a = NaN \/ b = NaN THEN NaN ELSE IF a >= b THEN a ELSE b

FMin(a, b) == IF a = NaN \/ b = NaN THEN NaN ELSE IF a <= b THEN a ELSE b

\* Newton's iteration for floor(sqrt(n)) from an estimate x >= sqrt(n), x > 0.
RECURSIVE SqrtIter(_, _)
SqrtIter(n, x) ==
  LET y == (x + n \div x) \div 2
  IN IF y >= x THEN x ELSE SqrtIter(n, y)

\* floor(sqrt(a * a + b * b)) for 0 <= a, 0 <= b.
Isqrt(a, b) == IF a + b = 0 THEN 0 ELSE SqrtIter(a * a + b * b, a + b)

\* Math.sqrt(dx * dx + dy * dy).  Differences too large for the model's
\* 32-bit products are computed in whole pixels.
Hypot(dx, dy) ==
  IF dx = NaN \/ dy = NaN THEN NaN
  ELSE IF Abs(dx) > 30000 \/ Abs(dy) > 30000
       THEN SCALE * Isqrt(Abs(Quot(dx, SCALE)), Abs(Quot(dy, SCALE)))
       ELSE Isqrt(Abs(dx), Abs(dy))

----------------------------------------------------------------------------
(* The graphs the data layer can answer with *)

FocalId == 1

Ids == {1, 2, 3}

\* { nodes: NetworkNode[], links: NetworkLink[] }: the node ids in list
\* order and the links as <<source, target>>.
EmptyGraph == [nodes |-> << >>, links |-> << >>]

GraphPair == [nodes |-> <<1, 2>>, links |-> << <<1, 2>> >>]

GraphFull == [nodes |-> <<1, 2, 3>>, links |-> << <<1, 2>>, <<2, 3>> >>]

GraphStar == [nodes |-> <<1, 3, 2>>, links |-> << <<1, 3>>, <<1, 2>> >>]

GraphPath == [nodes |-> <<2, 3>>, links |-> << <<2, 3>> >>]

\* Answers of the network load and of expand / collapse: the focal user is
\* among the nodes.
NetworkGraphs == {GraphPair, GraphFull, GraphStar}

\* Non-empty answers of the shortest-path search.
PathGraphs == {GraphPath}

\* Math.max(node.val || 4, 8): the data layer sends val 4 or 8.
NodeRadius == Px(8)

----------------------------------------------------------------------------
(* updateSimulationRef.current: one tick of the force simulation *)

IsPinned(node, pinnedNodes) == node.pinned \/ node.id \in pinnedNodes

\* nodes.find(n => n.id === id): the index of the first such node, 0 if none.
RECURSIVE FindFrom(_, _, _)
FindFrom(nodes, id, i) ==
  IF i > Len(nodes) THEN 0
  ELSE IF nodes[i].id = id THEN i
  ELSE FindFrom(nodes, id, i + 1)

FindNode(nodes, id) == FindFrom(nodes, id, 1)

\* Center force, applied only when the position is finite.
CenterForce(node, width, height) ==
  IF IsFinite(node.x) /\ IsFinite(node.y)
  THEN [node EXCEPT
          !.vx = FAdd(node.vx, FScale(FSub(Quot(width, 2), node.x), 1, 10000)),
          !.vy = FAdd(node.vy, FScale(FSub(Quot(height, 2), node.y), 1, 10000))]
  ELSE node

\* The repulsion of one other node on node.
RepelOne(node, other) ==
  LET dx == FSub(node.x, other.x)
      dy == FSub(node.y, other.y)
      distance == Hypot(dx, dy)
  IN IF FLt(distance, Px(100)) /\ FLt(Quot(SCALE, 10), distance)
     THEN LET force == FDiv(Px(100), FAdd(distance, Px(1)))
          IN [node EXCEPT
                !.vx = FAdd(node.vx, FScale(FMul(FDiv(dx, distance), force), 1, 100)),
                !.vy = FAdd(node.vy, FScale(FMul(FDiv(dy, distance), force), 1, 100))]
     ELSE node

\* for (const other of nodes): the repulsion of the nodes j.. on nodes[i].
RECURSIVE Repel(_, _, _, _)
Repel(nodes, i, j, node) ==
  IF j > Len(nodes) THEN node
  ELSE IF j = i THEN Repel(nodes, i, j + 1, node)
  ELSE Repel(nodes, i, j + 1, RepelOne(node, nodes[j]))

\* The force loop without its skip of the pinned nodes.
ApplyForcesPinnedToo(nodes, pinnedNodes, width, height) ==
  SubSeq([i \in 1..Len(nodes) |->
            Repel(nodes, i, 1, CenterForce(nodes[i], width, height))],
         1, Len(nodes))

\* The first loop: a pinned node's velocity is zeroed, any other node gets
\* the center force and the repulsion.  Positions are not written here.
ApplyForces(nodes, pinnedNodes, width, height) ==
  SubSeq([i \in 1..Len(nodes) |->
            IF IsPinned(nodes[i], pinnedNodes)
            THEN [nodes[i] EXCEPT !.vx = 0, !.vy = 0]
            ELSE Repel(nodes, i, 1, CenterForce(nodes[i], width, height))],
         1, Len(nodes))

\* The spring force of one link, on the endpoints that are not pinned.
LinkForce(nodes, link, pinnedNodes) ==
  LET s == FindNode(nodes, link[1])
      t == FindNode(nodes, link[2])
  IN IF s = 0 \/ t = 0 THEN nodes
     ELSE
       LET dx == FSub(nodes[t].x, nodes[s].x)
           dy == FSub(nodes[t].y, nodes[s].y)
           distance == Hypot(dx, dy)
       IN IF FLt(distance, Quot(SCALE, 10)) THEN nodes
          ELSE
            LET force == FScale(FSub(distance, Px(150)), 1, 1000)
                fx == FMul(FDiv(dx, distance), force)
                fy == FMul(FDiv(dy, distance), force)
                n1 == IF ~IsPinned(nodes[s], pinnedNodes)
                      THEN [nodes EXCEPT ![s].vx = FAdd(nodes[s].vx, fx),
                                         ![s].vy = FAdd(nodes[s].vy, fy)]
                      ELSE nodes
            IN IF ~IsPinned(n1[t], pinnedNodes)
               THEN [n1 EXCEPT ![t].vx = FSub(n1[t].vx, fx),
                               ![t].vy = FSub(n1[t].vy, fy)]
               ELSE n1

\* for (const link of links)
RECURSIVE LinkForces(_, _, _, _)
LinkForces(nodes, links, k, pinnedNodes) ==
  IF k > Len(links) THEN nodes
  ELSE LinkForces(LinkForce(nodes, links[k], pinnedNodes), links, k + 1,
                  pinnedNodes)

\* The clamp without its lower bound.
KeepInBoundsUpperOnly(a, limit) == FMin(FSub(limit, Px(20)), a)

\* Math.max(20, Math.min(limit - 20, a))
KeepInBounds(a, limit) == FMax(Px(20), FMin(FSub(limit, Px(20)), a))

\* MoveNode without the repairs of non-finite values.
MoveNodeNoRepair(node, width, height) ==
  LET vx1 == FScale(node.vx, 99, 100)
      vy1 == FScale(node.vy, 99, 100)
  IN [node EXCEPT !.vx = vx1, !.vy = vy1,
                  !.x = KeepInBounds(FAdd(node.x, vx1), width),
                  !.y = KeepInBounds(FAdd(node.y, vy1), height)]

\* The last loop, for one node that is not pinned: repair a non-finite
\* velocity, apply friction, move, repair a non-finite position, clamp.
MoveNode(node, width, height) ==
  LET vx0 == IF ~IsFinite(node.vx) THEN 0 ELSE node.vx
      vy0 == IF ~IsFinite(node.vy) THEN 0 ELSE node.vy
      vx1 == FScale(vx0, 99, 100)
      vy1 == FScale(vy0, 99, 100)
      x1 == FAdd(node.x, vx1)
      y1 == FAdd(node.y, vy1)
      x2 == IF ~IsFinite(x1) THEN Quot(width, 2) ELSE x1
      y2 == IF ~IsFinite(y1) THEN Quot(height, 2) ELSE y1
  IN [node EXCEPT !.vx = vx1, !.vy = vy1,
                  !.x = KeepInBounds(x2, width),
                  !.y = KeepInBounds(y2, height)]

Integrate(nodes, pinnedNodes, width, height) ==
  SubSeq([i \in 1..Len(nodes) |->
            IF IsPinned(nodes[i], pinnedNodes) THEN nodes[i]
            ELSE MoveNode(nodes[i], width, height)],
         1, Len(nodes))

\* updateSimulationRef.current(): hasCanvas is canvasRef.current # null.
UpdateSimulation(nodes, links, pinnedNodes, hasCanvas, width, height) ==
  IF ~hasCanvas THEN nodes
  ELSE Integrate(
         LinkForces(ApplyForces(nodes, pinnedNodes, width, height),
                    links, 1, pinnedNodes),
         pinnedNodes, width, height)

----------------------------------------------------------------------------
(* initializeSimulationRef.current: seeding and reconciliation *)

\* Math.cos and Math.sin of (index / Math.max(n, 1)) * 2 * Math.PI for the
\* list lengths of the graphs above, in hundredths (index counts from 0).
CosTable ==
  << <<100>>, <<100, -100>>, <<100, -50, -50>>, <<100, 0, -100, 0>> >>

SinTable ==
  << <<0>>, <<0, 0>>, <<0, 87, -87>>, <<0, 100, 0, -100>> >>

NewSimNode(id, x, y, vx, vy, pinned) ==
  [id |-> id, x |-> x, y |-> y, vx |-> vx, vy |-> vy, pinned |-> pinned]

\* existingNodesMap.get(id): a Map keeps the last entry of a key; 0 if none.
RECURSIVE ExistingFrom(_, _, _)
ExistingFrom(nodes, id, i) ==
  IF i < 1 THEN 0
  ELSE IF nodes[i].id = id THEN i
  ELSE ExistingFrom(nodes, id, i - 1)

ExistingNode(nodes, id) == ExistingFrom(nodes, id, Len(nodes))

\* A seed that puts the focal node on the ring with the others.
SeedNodeOnRing(id, index, count, pinnedNodes, mainUserId, width, height) ==
  LET centerX == Quot(width, 2)
      centerY == Quot(height, 2)
      radius == FScale(FMin(width, height), 3, 10)
  IN NewSimNode(id, FAdd(centerX, FMul(CosTable[count][index], radius)),
                FAdd(centerY, FMul(SinTable[count][index], radius)),
                0, 0, id \in pinnedNodes)

\* The else branch of the map callback: the seed of a node that has no
\* retained position.  index counts from 1 here.
SeedNode(id, index, count, pinnedNodes, mainUserId, width, height) ==
  LET centerX == Quot(width, 2)
      centerY == Quot(height, 2)
      pinned == id \in pinnedNodes
  IN IF ~IsFinite(centerX) \/ ~IsFinite(centerY)
     THEN NewSimNode(id, Px(100), Px(100), 0, 0, pinned)
     ELSE
       LET onRing == mainUserId = 0 \/ id # mainUserId
           radius == FScale(FMin(width, height), 3, 10)
           ringX == FAdd(centerX, FMul(CosTable[count][index], radius))
           ringY == FAdd(centerY, FMul(SinTable[count][index], radius))
           initialX == IF onRing THEN ringX ELSE centerX
           initialY == IF onRing THEN ringY ELSE centerY
           bad == ~IsFinite(initialX) \/ ~IsFinite(initialY)
       IN NewSimNode(id, IF bad THEN centerX ELSE initialX,
                         IF bad THEN centerY ELSE initialY, 0, 0, pinned)

\* A carry that keeps the position only.
CarryNodeAtRest(id, existing, pinnedNodes) ==
  NewSimNode(id, existing.x, existing.y, 0, 0, id \in pinnedNodes)

\* The then branch: an existing node with a finite position is carried over.
\* vx: existingNode.vx || 0 turns a NaN into 0; it would carry an infinite
\* velocity over, which NaN here cannot tell from a NaN: every tick and every
\* drag leaves the velocities finite, so none reaches this point.
CarryNode(id, existing, pinnedNodes) ==
  NewSimNode(id, existing.x, existing.y,
             IF existing.vx = NaN THEN 0 ELSE existing.vx,
             IF existing.vy = NaN THEN 0 ELSE existing.vy,
             existing.pinned \/ id \in pinnedNodes)

\* newData.nodes.map(...) followed by the repair of invalid positions.
NewSimNodes(simNodes, newNodes, pinnedNodes, mainUserId, width, height) ==
  SubSeq(
    [i \in 1..Len(newNodes) |->
       LET id == newNodes[i]
           e == ExistingNode(simNodes, id)
           node == IF e # 0 /\ IsFinite(simNodes[e].x) /\ IsFinite(simNodes[e].y)
                   THEN CarryNode(id, simNodes[e], pinnedNodes)
                   ELSE SeedNode(id, i, Len(newNodes), pinnedNodes, mainUserId,
                                 width, height)
       IN IF ~IsFinite(node.x) \/ ~IsFinite(node.y)
          THEN [node EXCEPT !.x = Quot(width, 2), !.y = Quot(height, 2)]
          ELSE node],
    1, Len(newNodes))

----------------------------------------------------------------------------
(* Coordinate conversion *)

\* screenToWorld: (screen - panOffset) / zoom
ScreenToWorld(s, pan, z) ==
  [x |-> FDiv(FSub(s.x, pan.x), z), y |-> FDiv(FSub(s.y, pan.y), z)]

\* A transform to the screen that leaves the pan out.
WorldToScreenNoPan(w, pan, z) == [x |-> FMul(w.x, z), y |-> FMul(w.y, z)]

\* worldToScreen: world * zoom + panOffset
WorldToScreen(w, pan, z) ==
  [x |-> FAdd(FMul(w.x, z), pan.x), y |-> FAdd(FMul(w.y, z), pan.y)]

\* The hit test of the pointer handlers: the id of the first node whose
\* distance to the world point is at most its radius, 0 if none.
RECURSIVE HitFrom(_, _, _)
HitFrom(nodes, w, i) ==
  IF i > Len(nodes) THEN 0
  ELSE IF FLe(Hypot(FSub(w.x, nodes[i].x), FSub(w.y, nodes[i].y)), NodeRadius)
       THEN nodes[i].id
  ELSE HitFrom(nodes, w, i + 1)

HitTest(nodes, w) == HitFrom(nodes, w, 1)

----------------------------------------------------------------------------
(* Bounds of the model *)

\* Pointer and wheel events in a run.
MaxInputs == 4

\* Window and page events (resize, path search, path reset, start over) in a
\* run.
MaxPageInputs == 2

\* Animation frames that fire in a run.
MaxTicks == 2

\* Requests in flight at a time.
MaxInFlight == 2

\* Identifiers requestAnimationFrame can hand out.
MaxFrameIds == 3

\* Wheel steps, from zoom 1, of the zooms a zoom scenario begins with.
MaxZoomSteps == 25

\* Friendship relationships stored in the data layer.
MaxRels == 3

----------------------------------------------------------------------------
(* The network endpoints: GET network/[username] and POST collapse /       *)
(* expand over the data layer.  A database db is [users, rels]: the ids of *)
(* the User nodes in the order a MATCH returns them, and the FRIENDS_WITH  *)
(* relationships as <<start, end>>, stored in either direction or twice.   *)

SeqRange(seq) == {seq[i] : i \in 1..Len(seq)}

\* MATCH (u:User)-[:FRIENDS_WITH]-(f:User) WHERE u._id IN ids RETURN f:
\* the undirected pattern gives a row for each end of a relationship.
RECURSIVE FriendRows(_, _)
FriendRows(rels, ids) ==
  IF rels = << >> THEN << >>
  ELSE LET r == Head(rels)
       IN (IF r[1] \in ids THEN <<r[2]>> ELSE << >>)
            \o (IF r[2] \in ids /\ r[1] # r[2] THEN <<r[1]>> ELSE << >>)
            \o FriendRows(Tail(rels), ids)

\* A query that checks one end of the relationship only.
RECURSIVE LinkRowsOneEnd(_, _)
LinkRowsOneEnd(rels, ids) ==
  IF rels = << >> THEN << >>
  ELSE LET r == Head(rels)
       IN (IF (r[1] \in ids \/ r[2] \in ids) /\ r[1] # r[2]
           THEN << <<IF r[1] < r[2] THEN r[1] ELSE r[2],
                     IF r[1] < r[2] THEN r[2] ELSE r[1]>> >>
           ELSE << >>)
            \o LinkRowsOneEnd(Tail(rels), ids)

\* MATCH (u1:User)-[:FRIENDS_WITH]-(u2:User) WHERE u1._id IN $userIds AND
\* u2._id IN $userIds AND u1._id < u2._id RETURN u1._id, u2._id: of the two
\* rows of a relationship the one with the smaller id first.
RECURSIVE LinkRows(_, _)
LinkRows(rels, ids) ==
  IF rels = << >> THEN << >>
  ELSE LET r == Head(rels)
       IN (IF r[1] \in ids /\ r[2] \in ids /\ r[1] # r[2]
           THEN << <<IF r[1] < r[2] THEN r[1] ELSE r[2],
                     IF r[1] < r[2] THEN r[2] ELSE r[1]>> >>
           ELSE << >>)
            \o LinkRows(Tail(rels), ids)

\* `${Math.min(source, target)}-${Math.max(source, target)}`: the decimal
\* digits of the two ids around a dash name the unordered pair.
LinkKey(link) ==
  <<IF link[1] < link[2] THEN link[1] ELSE link[2],
    IF link[1] < link[2] THEN link[2] ELSE link[1]>>

RECURSIVE UniqueLinksFrom(_, _, _)
UniqueLinksFrom(links, i, keys) ==
  IF i > Len(links) THEN << >>
  ELSE IF LinkKey(links[i]) \in keys THEN UniqueLinksFrom(links, i + 1, keys)
  ELSE <<links[i]>>
         \o UniqueLinksFrom(links, i + 1, keys \cup {LinkKey(links[i])})

\* A response that passes the links of the query on as they are.
UniqueLinksKeepAll(links) == links

\* uniqueLinks: the first link of each key.
UniqueLinks(links) == UniqueLinksFrom(links, 1, {})

\* Array.from(uniqueUsersMap.values()): a Map keeps a key at the place of
\* its first insertion.
RECURSIVE UniqueUsersFrom(_, _, _)
UniqueUsersFrom(ids, i, seen) ==
  IF i > Len(ids) THEN << >>
  ELSE IF ids[i] \in seen THEN UniqueUsersFrom(ids, i + 1, seen)
  ELSE <<ids[i]>> \o UniqueUsersFrom(ids, i + 1, seen \cup {ids[i]})

UniqueUsers(ids) == UniqueUsersFrom(ids, 1, {})

ConnectedNodeIds(links) ==
  {links[i][1] : i \in 1..Len(links)} \cup {links[i][2] : i \in 1..Len(links)}

NotFound == [status |-> 404, networkData |-> EmptyGraph, mainUser |-> 0]

Found(g, main) == [status |-> 200, networkData |-> g, mainUser |-> main]

\* GET: the focal user and the friends that have a link.
NetworkGet(db, main) ==
  IF main \notin SeqRange(db.users) THEN NotFound
  ELSE
    LET allFriends == FriendRows(db.rels, {main})
        allUserIds == {main} \cup SeqRange(allFriends)
        links == LinkRows(db.rels, allUserIds)
        connected == ConnectedNodeIds(links)
        connectedFriends == SelectSeq(allFriends, LAMBDA f : f \in connected)
    IN Found([nodes |-> UniqueUsers(<<main>> \o connectedFriends),
              links |-> UniqueLinks(links)], main)

\* POST: the focal user, its friends, the expanded nodes and their friends,
\* of which those that have a link, and the focal user.
NetworkPost(db, main, expanded) ==
  IF main \notin SeqRange(db.users) THEN NotFound
  ELSE
    LET nodesToIncludeIds ==
          {main} \cup SeqRange(FriendRows(db.rels, {main})) \cup expanded
            \cup SeqRange(FriendRows(db.rels, expanded))
        allUsers == SelectSeq(db.users, LAMBDA u : u \in nodesToIncludeIds)
        links == LinkRows(db.rels, nodesToIncludeIds)
        connected == ConnectedNodeIds(links)
        connectedUsers ==
          SelectSeq(allUsers, LAMBDA u : u = main \/ u \in connected)
    IN Found([nodes |-> UniqueUsers(connectedUsers),
              links |-> UniqueLinks(links)], main)

----------------------------------------------------------------------------
(* State *)

VARIABLES
  mounted,          \* the view is mounted (src/app/page.tsx renders it)
  networkData, loading, error, mainUser, expandedNodes, pinnedNodes,
  hoveredNode, selectedNode, zoom, panOffset, isPanning, lastPanPosition,
  isDragging, draggedNode, dragOffset, mouseDownPos, hasDragged,
  animationRef,     \* the frame id of the last requestAnimationFrame, 0: undefined
  simulationRef,    \* [nodes, links]
  canvas,           \* width and height attributes of the canvas element
  rect,             \* the layout size getBoundingClientRect reports
  wheelCanvas,      \* the wheel listener is on the canvas element now mounted
  frames,           \* ids of the pending animation-frame callbacks
  effectTimer,      \* the pending timer of Effect 2: << >> or <<[data, src]>>
  retryTimers,      \* the pending zero-viewport retries, each [data, src]
  fetches,          \* the network requests in flight, in the order they began
  pathNodes,        \* the pathNodes / pathLinks props, as a graph
  pathFinding,      \* the page's shortest-path request is in flight
  shortestPath,     \* the ids of the highlighted path
  pathError,        \* the path error message, "none": null
  ticks, inputs, pageInputs,   \* counters for the bounds above
  pointer,          \* history: where the last pointer-down or -move was
  gest,             \* history: the last pointer-down: the node hit, where it
                    \* was, the view, and whether the pointer went past 5 px
  clicks,           \* history: the last two clicks, each [node, intent]
  dataSrc,          \* history: the operation that wrote networkData
  userPinned,       \* history: nodes pinned by a drag since a load last began
  latest,           \* history: the network request that began last
  shown,            \* history: the expanded set of the request whose
                    \* response wrote networkData (empty: a load, a path)
  wanted,           \* history: the graph of the last call of
                    \* initializeSimulationRef.current that was not a retry
  ev                \* history: the last operation and what it emitted

reactVars ==
  <<networkData, loading, error, mainUser, expandedNodes, pinnedNodes,
    hoveredNode, selectedNode, zoom, panOffset, isPanning, lastPanPosition,
    isDragging, draggedNode, dragOffset, mouseDownPos, hasDragged>>

pointerVars ==
  <<hoveredNode, selectedNode, isPanning, lastPanPosition, isDragging,
    draggedNode, dragOffset, mouseDownPos, hasDragged>>

viewVars == <<zoom, panOffset>>

dataVars == <<networkData, loading, error, mainUser, expandedNodes, dataSrc>>

loopVars == <<animationRef, simulationRef, frames, retryTimers>>

pageVars ==
  <<pathNodes, pathFinding, pageInputs, shortestPath, pathError>>

vars ==
  <<mounted, reactVars, animationRef, simulationRef, canvas, rect,
    wheelCanvas, frames, effectTimer, retryTimers, fetches, pathNodes,
    pathFinding, shortestPath, pathError, ticks, inputs, pageInputs, pointer,
    gest, clicks, dataSrc,
    userPinned, latest, shown, wanted, ev>>

ghostVars == <<pointer, gest, clicks>>

Point(x, y) == [x |-> x, y |-> y]

Size(w, h) == [width |-> w, height |-> h]

\* A canvas element without width and height attributes is 300 by 150.
DefaultCanvas == Size(Px(300), Px(150))

\* Layout sizes of the canvas: the page gives it the whole window.
RectSizes == {Size(0, 0), Size(Px(30), Px(100)), Size(Px(100), Px(100))}

Event(op, node, intent, src, reconciled) ==
  [op |-> op, node |-> node, intent |-> intent, src |-> src,
   reconciled |-> reconciled]

\* canvasRef.current # null: the canvas is rendered only below the
\* username, loading, error and empty-data branches.
HasCanvas ==
  mounted /\ ~loading /\ ~error /\ Len(networkData.nodes) > 0

HasCanvasNext ==
  mounted' /\ ~loading' /\ ~error' /\ Len(networkData'.nodes) > 0

Init ==
  /\ mounted = TRUE
  /\ networkData = EmptyGraph
  /\ loading = TRUE
  /\ error = FALSE
  /\ mainUser = 0
  /\ expandedNodes = {}
  /\ pinnedNodes = {}
  /\ hoveredNode = 0
  /\ selectedNode = 0
  /\ zoom = SCALE
  /\ panOffset = Point(0, 0)
  /\ isPanning = FALSE
  /\ lastPanPosition = Point(0, 0)
  /\ isDragging = FALSE
  /\ draggedNode = 0
  /\ dragOffset = Point(0, 0)
  /\ mouseDownPos = Point(0, 0)
  /\ hasDragged = FALSE
  /\ animationRef = 0
  /\ simulationRef = [nodes |-> << >>, links |-> << >>]
  /\ canvas = DefaultCanvas
  /\ rect = Size(Px(100), Px(100))
  /\ wheelCanvas = FALSE
  /\ frames = {}
  /\ effectTimer = << >>
  /\ retryTimers = << >>
  /\ fetches = << [kind |-> "load", node |-> 0, expanded |-> {}],
                  [kind |-> "load", node |-> 0, expanded |-> {}] >>
  /\ pathNodes = EmptyGraph
  /\ pathFinding = FALSE
  /\ shortestPath = << >>
  /\ pathError = "none"
  /\ ticks = 0
  /\ inputs = 0
  /\ pageInputs = 0
  /\ pointer = Point(0, 0)
  /\ gest = [hit |-> 0, x |-> 0, y |-> 0, zoom |-> SCALE,
             pan |-> Point(0, 0), far |-> FALSE]
  /\ clicks = << >>
  /\ dataSrc = "none"
  /\ latest = [kind |-> "load", node |-> 0, expanded |-> {}]
  /\ shown = {}
  /\ wanted = networkData
  /\ userPinned = {}
  /\ ev = Event("mount", 0, "none", "none", FALSE)

----------------------------------------------------------------------------
(* The animation loop and the reconciliation *)

Min(S) == CHOOSE a \in S : \A b \in S : a <= b

\* requestAnimationFrame: an id that names no callback now known (the ids
\* of a browser grow; the model takes the least id that is not in use).
FreshFrameId(used) ==
  IF (1..MaxFrameIds) \ used = {} THEN MaxFrameIds
  ELSE Min((1..MaxFrameIds) \ used)

\* A restart that does not cancel the frame requested before.
CancelFrameForgotten(loop) == loop

\* if (animationRef.current) { cancelAnimationFrame(...); ... = undefined }
\* loop.prev remembers the id cancelled, which the browser does not reuse.
CancelFrame(loop) ==
  IF loop.anim # 0
  THEN [loop EXCEPT !.frames = loop.frames \ {loop.anim}, !.anim = 0,
                    !.prev = loop.anim]
  ELSE loop

\* startSimulationRef.current(): animate() runs one tick, draws and requests
\* the next frame.  loop is [anim, frames, sim, prev]; cv is the canvas size.
StartSimulation(loop, hasCanvas, cv) ==
  LET id == FreshFrameId(loop.frames \cup {loop.anim, loop.prev})
  IN [anim |-> id,
      frames |-> loop.frames \cup {id},
      prev |-> 0,
      sim |-> [loop.sim EXCEPT
                 !.nodes = UpdateSimulation(loop.sim.nodes, loop.sim.links,
                                            pinnedNodes, hasCanvas,
                                            cv.width, cv.height)]]

TheLoop ==
  [anim |-> animationRef, frames |-> frames, sim |-> simulationRef, prev |-> 0]

\* initializeSimulationRef.current(newData), called in the latest render:
\* the loop after the call, the canvas size after it, the retry it
\* scheduled and whether it reconciled.
InitializeSimulation(newData) ==
  IF ~HasCanvas
  THEN [loop |-> TheLoop, canvas |-> canvas, retry |-> << >>, done |-> FALSE]
  ELSE
    LET cancelled == CancelFrame(TheLoop)
    IN IF rect.width <= 0 \/ rect.height <= 0
       THEN [loop |-> cancelled, canvas |-> rect, retry |-> <<newData>>,
             done |-> FALSE]
       ELSE
         LET merged == [nodes |-> NewSimNodes(simulationRef.nodes,
                                              newData.nodes, pinnedNodes,
                                              mainUser, rect.width,
                                              rect.height),
                        links |-> newData.links]
         IN [loop |-> StartSimulation([cancelled EXCEPT !.sim = merged],
                                      TRUE, rect),
             canvas |-> rect, retry |-> << >>, done |-> TRUE]

\* The render after a handler and the effects it triggers.  cv is the canvas
\* size and tm the Effect 2 timer the handler left; viewSet tells that zoom
\* or panOffset was set (a new panOffset object is a changed dependency).
\*  - a canvas element mounted by this render has the default size;
\*  - Effect 2 (dependencies: the node and link counts, loading, error)
\*    clears its timer and schedules a reconciliation of networkData;
\*  - the resize / wheel effect (dependencies: zoom, panOffset) moves the
\*    wheel listener to the canvas now mounted and runs handleResize.
Render(cv, tm, viewSet) ==
  LET kept == HasCanvas /\ HasCanvasNext
      element == IF kept THEN cv ELSE DefaultCanvas
      depsChanged == \/ Len(networkData'.nodes) # Len(networkData.nodes)
                     \/ Len(networkData'.links) # Len(networkData.links)
                     \/ loading' # loading
                     \/ error' # error
  IN /\ canvas' = IF viewSet /\ HasCanvasNext /\ rect'.width > 0
                     /\ rect'.height > 0
                  THEN rect' ELSE element
     /\ wheelCanvas' = IF viewSet THEN HasCanvasNext ELSE wheelCanvas /\ kept
     /\ effectTimer' =
          IF ~depsChanged THEN tm
          ELSE IF Len(networkData'.nodes) > 0
               THEN << [data |-> networkData', src |-> dataSrc'] >>
          ELSE IF ~loading' /\ ~error'
               THEN << [data |-> EmptyGraph, src |-> dataSrc'] >>
          ELSE << >>

RemoveAt(seq, i) == SubSeq(seq, 1, i - 1) \o SubSeq(seq, i + 1, Len(seq))

\* A zero-size call that schedules nothing.
RetriesDropped(r, src) == << >>

\* setTimeout(() => initializeSimulationRef.current?.(newData), 100)
Retries(r, src) == [k \in 1..Len(r.retry) |-> [data |-> r.retry[k], src |-> src]]

\* The writes of a call of initializeSimulationRef.current to the refs.
ApplyInit(r, src) ==
  /\ animationRef' = r.loop.anim
  /\ frames' = r.loop.frames
  /\ simulationRef' = r.loop.sim
  /\ retryTimers' = retryTimers \o Retries(r, src)

\* animate(), as the animation-frame callback id.
Frame(id) ==
  /\ id \in frames
  /\ ticks < MaxTicks
  /\ ticks' = ticks + 1
  /\ LET next == StartSimulation(TheLoop, HasCanvas, canvas)
     IN /\ animationRef' = next.anim
        /\ frames' = next.frames \ {id}
        /\ simulationRef' = next.sim
  /\ ev' = Event("frame", 0, "none", "none", FALSE)
  /\ UNCHANGED <<mounted, reactVars, canvas, rect, wheelCanvas, effectTimer,
                 retryTimers, fetches, pageVars, inputs, dataSrc, userPinned,
                 ghostVars>>
  /\ UNCHANGED <<latest, shown, wanted>>

\* The timer of Effect 2 fires: initializeSimulationRef.current(networkData)
\* with the networkData of the render that scheduled it.
EffectTimerFires ==
  /\ mounted
  /\ effectTimer # << >>
  /\ LET tm == effectTimer[1]
         r == InitializeSimulation(tm.data)
     IN /\ ApplyInit(r, tm.src)
        /\ canvas' = r.canvas
        /\ ev' = Event("effectTimer", 0, "none", tm.src, r.done)
  /\ effectTimer' = << >>
  /\ UNCHANGED <<mounted, reactVars, rect, wheelCanvas, fetches, pageVars,
                 ticks, inputs, dataSrc, userPinned, ghostVars>>
  /\ UNCHANGED <<latest, shown>>
  /\ wanted' = effectTimer[1].data

\* A zero-viewport retry fires: initializeSimulationRef.current(newData).
RetryTimerFires(k) ==
  /\ k \in 1..Len(retryTimers)
  /\ LET tm == retryTimers[k]
         r == InitializeSimulation(tm.data)
     IN /\ animationRef' = r.loop.anim
        /\ frames' = r.loop.frames
        /\ simulationRef' = r.loop.sim
        /\ retryTimers' = RemoveAt(retryTimers, k) \o Retries(r, tm.src)
        /\ canvas' = r.canvas
        /\ ev' = Event("retryTimer", 0, "none", tm.src, r.done)
  /\ UNCHANGED <<mounted, reactVars, rect, wheelCanvas, effectTimer, fetches,
                 pageVars, ticks, inputs, dataSrc, userPinned, ghostVars>>
  /\ UNCHANGED <<latest, shown, wanted>>

----------------------------------------------------------------------------
(* The network requests *)

LoadRequest == [kind |-> "load", node |-> 0, expanded |-> {}]

\* A load that keeps the pinned and the expanded set.
StartLoadKeepsSets ==
  /\ loading' = TRUE
  /\ error' = FALSE
  /\ pinnedNodes' = pinnedNodes
  /\ expandedNodes' = expandedNodes
  /\ userPinned' = userPinned
  /\ fetches' = Append(fetches, LoadRequest)
  /\ latest' = LoadRequest
  /\ UNCHANGED <<shown, wanted>>

\* fetchNetworkData, up to its await: loading is set, the error, the pinned
\* set and the expanded set are reset and the request is sent.
StartLoad ==
  /\ loading' = TRUE
  /\ error' = FALSE
  /\ pinnedNodes' = {}
  /\ expandedNodes' = {}
  /\ userPinned' = {}
  /\ fetches' = Append(fetches, LoadRequest)
  /\ latest' = LoadRequest
  /\ UNCHANGED <<shown, wanted>>

\* A request of a view that has been unmounted completes: its state updates
\* are dropped and initializeSimulationRef.current finds no canvas.
Orphaned(i) ==
  /\ ~mounted
  /\ fetches' = RemoveAt(fetches, i)
  /\ ev' = Event("orphan", 0, "none", "none", FALSE)
  /\ UNCHANGED <<mounted, reactVars, loopVars, canvas, rect, wheelCanvas,
                 effectTimer, pageVars, ticks, inputs, dataSrc, userPinned,
                 ghostVars>>
  /\ UNCHANGED <<latest, shown, wanted>>

\* fetchNetworkData after a successful response.
LoadOk(i, g) ==
  /\ mounted
  /\ fetches[i].kind = "load"
  /\ fetches' = RemoveAt(fetches, i)
  /\ networkData' = g
  /\ dataSrc' = "load"
  /\ mainUser' = FocalId
  /\ loading' = FALSE
  /\ LET r == InitializeSimulation(g)
     IN /\ ApplyInit(r, "load")
        /\ ev' = Event("loadOk", 0, "none", "load", r.done)
        /\ UNCHANGED <<mounted, rect, error, expandedNodes, pinnedNodes,
                       pointerVars, viewVars, pageVars, ticks, inputs,
                       userPinned, ghostVars>>
        /\ Render(r.canvas, effectTimer, FALSE)
  /\ UNCHANGED latest
  /\ shown' = {}
  /\ wanted' = g

\* A catch block that keeps the network shown before.
LoadFailKeepsData(i) ==
  /\ mounted
  /\ fetches[i].kind = "load"
  /\ fetches' = RemoveAt(fetches, i)
  /\ error' = TRUE
  /\ mainUser' = 0
  /\ expandedNodes' = {}
  /\ pinnedNodes' = {}
  /\ loading' = FALSE
  /\ ev' = Event("loadFail", 0, "none", "none", FALSE)
  /\ UNCHANGED <<mounted, rect, networkData, dataSrc, pointerVars, viewVars,
                 loopVars, pageVars, ticks, inputs, userPinned, ghostVars>>
  /\ Render(canvas, effectTimer, FALSE)
  /\ UNCHANGED <<latest, shown, wanted>>

\* fetchNetworkData after a failed response: the catch block.
LoadFail(i) ==
  /\ mounted
  /\ fetches[i].kind = "load"
  /\ fetches' = RemoveAt(fetches, i)
  /\ error' = TRUE
  /\ networkData' = EmptyGraph
  /\ dataSrc' = "none"
  /\ mainUser' = 0
  /\ expandedNodes' = {}
  /\ pinnedNodes' = {}
  /\ loading' = FALSE
  /\ ev' = Event("loadFail", 0, "none", "none", FALSE)
  /\ UNCHANGED <<mounted, rect, pointerVars, viewVars, loopVars, pageVars,
                 ticks, inputs, userPinned, ghostVars>>
  /\ Render(canvas, effectTimer, FALSE)
  /\ UNCHANGED latest
  /\ shown' = {}
  /\ UNCHANGED wanted

\* A friend response that also empties the pinned set.
FriendOkResetsPins(i, g, kind) ==
  /\ mounted
  /\ fetches[i].kind = kind
  /\ fetches' = RemoveAt(fetches, i)
  /\ networkData' = g
  /\ dataSrc' = kind
  /\ expandedNodes' = fetches[i].expanded
  /\ pinnedNodes' = {}
  /\ LET r == InitializeSimulation(g)
     IN /\ ApplyInit(r, kind)
        /\ ev' = Event(kind \o "Ok", fetches[i].node, "none", kind, r.done)
        /\ UNCHANGED <<mounted, rect, loading, error, mainUser,
                       pointerVars, viewVars, pageVars, ticks, inputs,
                       userPinned, ghostVars>>
        /\ Render(r.canvas, effectTimer, FALSE)
  /\ UNCHANGED latest
  /\ shown' = fetches[i].expanded
  /\ wanted' = g

\* expandFriendNetwork / collapseFriendNetwork after a successful response:
\* the graph and the expanded set computed at the click are applied.
FriendOk(i, g, kind) ==
  /\ mounted
  /\ fetches[i].kind = kind
  /\ fetches' = RemoveAt(fetches, i)
  /\ networkData' = g
  /\ dataSrc' = kind
  /\ expandedNodes' = fetches[i].expanded
  /\ LET r == InitializeSimulation(g)
     IN /\ ApplyInit(r, kind)
        /\ ev' = Event(kind \o "Ok", fetches[i].node, "none", kind, r.done)
        /\ UNCHANGED <<mounted, rect, loading, error, mainUser, pinnedNodes,
                       pointerVars, viewVars, pageVars, ticks, inputs,
                       userPinned, ghostVars>>
        /\ Render(r.canvas, effectTimer, FALSE)
  /\ UNCHANGED latest
  /\ shown' = fetches[i].expanded
  /\ wanted' = g

ExpandOk(i, g) == FriendOk(i, g, "expand")

CollapseOk(i, g) == FriendOk(i, g, "collapse")

\* A failed friend request that is sent again and forgets the expansions.
FriendFailRetries(i) ==
  /\ mounted
  /\ fetches[i].kind \in {"expand", "collapse"}
  /\ fetches' = Append(RemoveAt(fetches, i), fetches[i])
  /\ error' = TRUE
  /\ expandedNodes' = {}
  /\ ev' = Event(fetches[i].kind \o "Fail", fetches[i].node, "none", "none",
                 FALSE)
  /\ UNCHANGED <<mounted, rect, networkData, dataSrc, loading, mainUser,
                 pinnedNodes, pointerVars, viewVars, loopVars,
                 pageVars, ticks, inputs, userPinned, ghostVars>>
  /\ Render(canvas, effectTimer, FALSE)
  /\ UNCHANGED <<latest, shown, wanted>>

\* expandFriendNetwork / collapseFriendNetwork after a failed response.
FriendFail(i) ==
  /\ mounted
  /\ fetches[i].kind \in {"expand", "collapse"}
  /\ fetches' = RemoveAt(fetches, i)
  /\ error' = TRUE
  /\ ev' = Event(fetches[i].kind \o "Fail", fetches[i].node, "none", "none",
                 FALSE)
  /\ UNCHANGED <<mounted, rect, networkData, dataSrc, loading, mainUser,
                 expandedNodes, pinnedNodes, pointerVars, viewVars, loopVars,
                 pageVars, ticks, inputs, userPinned, ghostVars>>
  /\ Render(canvas, effectTimer, FALSE)
  /\ UNCHANGED <<latest, shown, wanted>>

----------------------------------------------------------------------------
(* The pointer handlers *)

\* The pointer positions tried: the whole pixel over the center of a node,
\* a corner of the canvas, and offsets from the last pointer-down position.
SnapToPixel(a) == Quot(a, SCALE) * SCALE

OverNode(node) ==
  LET sc == WorldToScreen(Point(node.x, node.y), panOffset, zoom)
  IN Point(SnapToPixel(sc.x), SnapToPixel(sc.y))

CornerPoint == Point(Px(5), Px(5))

NodePoints ==
  {OverNode(simulationRef.nodes[i]) : i \in 1..Len(simulationRef.nodes)}

DownPoints == NodePoints \cup {CornerPoint}

MoveOffsets == {Point(Px(3), Px(4)), Point(Px(30), 0)}

MovePoints ==
  {Point(mouseDownPos.x + d.x, mouseDownPos.y + d.y) : d \in MoveOffsets}

\* Mouse events reach the canvas only from points inside it.
InCanvas(sc) ==
  /\ 0 <= sc.x /\ sc.x <= rect.width
  /\ 0 <= sc.y /\ sc.y <= rect.height

NodeOf(nodes, id) == nodes[FindNode(nodes, id)]

\* handleCanvasMouseDown
MouseDown(sc) ==
  /\ HasCanvas
  /\ InCanvas(sc)
  /\ inputs < MaxInputs
  /\ inputs' = inputs + 1
  /\ LET worldPos == ScreenToWorld(sc, panOffset, zoom)
         clickedOnNode == HitTest(simulationRef.nodes, worldPos)
     IN /\ mouseDownPos' = sc
        /\ hasDragged' = FALSE
        /\ pointer' = sc
        /\ IF clickedOnNode # 0
           THEN LET nodeToDrag == NodeOf(simulationRef.nodes, clickedOnNode)
                IN /\ draggedNode' = clickedOnNode
                   /\ dragOffset' = Point(FSub(worldPos.x, nodeToDrag.x),
                                          FSub(worldPos.y, nodeToDrag.y))
                   /\ gest' = [hit |-> clickedOnNode, x |-> nodeToDrag.x,
                               y |-> nodeToDrag.y, zoom |-> zoom,
                               pan |-> panOffset, far |-> FALSE]
                   /\ UNCHANGED <<isPanning, lastPanPosition>>
           ELSE /\ isPanning' = TRUE
                /\ lastPanPosition' = sc
                /\ gest' = [hit |-> 0, x |-> 0, y |-> 0, zoom |-> zoom,
                            pan |-> panOffset, far |-> FALSE]
                /\ UNCHANGED <<draggedNode, dragOffset>>
        /\ ev' = Event("down", clickedOnNode, "none", "none", FALSE)
  /\ UNCHANGED <<mounted, rect, dataVars, pinnedNodes, hoveredNode,
                 selectedNode, isDragging, viewVars, loopVars, fetches,
                 pageVars, ticks, userPinned, clicks>>
  /\ Render(canvas, effectTimer, FALSE)
  /\ UNCHANGED <<latest, shown, wanted>>

\* The part of handleCanvasMouseMove that moves the dragged node.
DragNode(nodes, id, worldPos, offset) ==
  LET i == FindNode(nodes, id)
  IN IF i = 0 THEN nodes
     ELSE [nodes EXCEPT ![i].x = FSub(worldPos.x, offset.x),
                        ![i].y = FSub(worldPos.y, offset.y),
                        ![i].vx = 0, ![i].vy = 0]

\* moveDistance > 5
PastThreshold(sc, from) ==
  FLt(Px(5), Hypot(FSub(sc.x, from.x), FSub(sc.y, from.y)))

\* A pointer-move that pans whenever no node is held, panning or not.
MouseMoveAlwaysPans(sc) ==
  /\ HasCanvas
  /\ InCanvas(sc)
  /\ inputs < MaxInputs
  /\ inputs' = inputs + 1
  /\ pointer' = sc
  /\ gest' = [gest EXCEPT !.far = @ \/ PastThreshold(sc, mouseDownPos)]
  /\ LET worldPos == ScreenToWorld(sc, panOffset, zoom)
         starts == /\ draggedNode # 0
                   /\ PastThreshold(sc, mouseDownPos)
                   /\ ~isDragging
         drags == draggedNode # 0 /\ isDragging
         pans == draggedNode = 0
     IN /\ isDragging' = (isDragging \/ starts)
        /\ hasDragged' = (hasDragged \/ starts)
        /\ pinnedNodes' = IF starts THEN pinnedNodes \cup {draggedNode}
                          ELSE pinnedNodes
        /\ userPinned' = IF starts THEN userPinned \cup {draggedNode}
                         ELSE userPinned
        /\ simulationRef' =
             IF drags
             THEN [simulationRef EXCEPT
                     !.nodes = DragNode(@, draggedNode, worldPos, dragOffset)]
             ELSE simulationRef
        /\ panOffset' =
             IF pans
             THEN Point(panOffset.x + (sc.x - lastPanPosition.x),
                        panOffset.y + (sc.y - lastPanPosition.y))
             ELSE panOffset
        /\ lastPanPosition' = IF pans THEN sc ELSE lastPanPosition
        /\ hoveredNode' = IF drags \/ pans THEN hoveredNode
                          ELSE HitTest(simulationRef.nodes, worldPos)
        /\ ev' = Event("move", draggedNode,
                       IF drags THEN "drag" ELSE IF starts THEN "dragStart"
                       ELSE IF pans THEN "pan" ELSE "hover",
                       "none", FALSE)
        /\ UNCHANGED <<mounted, rect, dataVars, selectedNode, zoom, isPanning,
                       draggedNode, dragOffset, mouseDownPos, animationRef,
                       frames, retryTimers, fetches, pageVars, ticks, clicks>>
        /\ Render(canvas, effectTimer, pans)
  /\ UNCHANGED <<latest, shown, wanted>>

\* handleCanvasMouseMove
MouseMove(sc) ==
  /\ HasCanvas
  /\ InCanvas(sc)
  /\ inputs < MaxInputs
  /\ inputs' = inputs + 1
  /\ pointer' = sc
  /\ gest' = [gest EXCEPT !.far = @ \/ PastThreshold(sc, mouseDownPos)]
  /\ LET worldPos == ScreenToWorld(sc, panOffset, zoom)
         starts == /\ draggedNode # 0
                   /\ PastThreshold(sc, mouseDownPos)
                   /\ ~isDragging
         drags == draggedNode # 0 /\ isDragging
         pans == draggedNode = 0 /\ isPanning
     IN /\ isDragging' = (isDragging \/ starts)
        /\ hasDragged' = (hasDragged \/ starts)
        /\ pinnedNodes' = IF starts THEN pinnedNodes \cup {draggedNode}
                          ELSE pinnedNodes
        /\ userPinned' = IF starts THEN userPinned \cup {draggedNode}
                         ELSE userPinned
        /\ simulationRef' =
             IF drags
             THEN [simulationRef EXCEPT
                     !.nodes = DragNode(@, draggedNode, worldPos, dragOffset)]
             ELSE simulationRef
        /\ panOffset' =
             IF pans
             THEN Point(panOffset.x + (sc.x - lastPanPosition.x),
                        panOffset.y + (sc.y - lastPanPosition.y))
             ELSE panOffset
        /\ lastPanPosition' = IF pans THEN sc ELSE lastPanPosition
        /\ hoveredNode' = IF drags \/ pans THEN hoveredNode
                          ELSE HitTest(simulationRef.nodes, worldPos)
        /\ ev' = Event("move", draggedNode,
                       IF drags THEN "drag" ELSE IF starts THEN "dragStart"
                       ELSE IF pans THEN "pan" ELSE "hover",
                       "none", FALSE)
        /\ UNCHANGED <<mounted, rect, dataVars, selectedNode, zoom, isPanning,
                       draggedNode, dragOffset, mouseDownPos, animationRef,
                       frames, retryTimers, fetches, pageVars, ticks, clicks>>
        /\ Render(canvas, effectTimer, pans)
  /\ UNCHANGED <<latest, shown, wanted>>

\* A click that treats the focal node like every other node.
ClickIntentFocalToo(nodeId) ==
  IF nodeId \notin expandedNodes
  THEN IF FindNode(simulationRef.nodes, nodeId) # 0 /\ mainUser # 0
       THEN "expand" ELSE "select"
  ELSE IF mainUser # 0 THEN "collapse" ELSE "select"

\* A click that never collapses.
ClickIntentExpandOnly(nodeId) ==
  IF mainUser # 0 /\ nodeId = mainUser THEN "select" ELSE "expand"

\* handleNodeClick(nodeId) with expandFriendNetwork / collapseFriendNetwork
\* up to their await: what the click emits, and the request it sends.
ClickIntent(nodeId) ==
  IF mainUser # 0 /\ nodeId = mainUser THEN "select"
  ELSE IF nodeId \notin expandedNodes
       THEN IF FindNode(simulationRef.nodes, nodeId) # 0 /\ mainUser # 0
            THEN "expand" ELSE "select"
  ELSE IF mainUser # 0 THEN "collapse" ELSE "select"

ClickRequest(nodeId, intent) ==
  IF intent = "expand"
  THEN << [kind |-> "expand", node |-> nodeId,
           expanded |-> expandedNodes \cup {nodeId}] >>
  ELSE IF intent = "collapse"
  THEN << [kind |-> "collapse", node |-> nodeId,
           expanded |-> expandedNodes \ {nodeId}] >>
  ELSE << >>

LastTwo(seq) == IF Len(seq) > 2 THEN SubSeq(seq, Len(seq) - 1, Len(seq)) ELSE seq

\* A pointer-up that leaves the pan running.
MouseUpKeepsPan ==
  /\ HasCanvas
  /\ inputs < MaxInputs
  /\ inputs' = inputs + 1
  /\ LET clicked == IF ~hasDragged /\ draggedNode # 0 THEN draggedNode ELSE 0
         intent == IF clicked # 0 THEN ClickIntent(clicked) ELSE "none"
         request == ClickRequest(clicked, intent)
     IN /\ Len(fetches) + Len(request) <= MaxInFlight
        /\ fetches' = fetches \o request
        /\ latest' = IF request # << >> THEN request[1] ELSE latest
        /\ UNCHANGED <<shown, wanted>>
        /\ selectedNode' = IF clicked # 0 THEN clicked ELSE selectedNode
        /\ clicks' = IF clicked # 0
                     THEN LastTwo(Append(clicks, [node |-> clicked,
                                                  intent |-> intent]))
                     ELSE clicks
        /\ ev' = Event("up", clicked, intent, "none", FALSE)
  /\ isDragging' = FALSE
  /\ draggedNode' = 0
  /\ hasDragged' = FALSE
  /\ isPanning' = isPanning
  /\ UNCHANGED <<mounted, rect, dataVars, pinnedNodes, hoveredNode,
                 lastPanPosition, dragOffset, mouseDownPos, viewVars,
                 loopVars, pageVars, ticks, userPinned, pointer, gest>>
  /\ Render(canvas, effectTimer, FALSE)

\* handleCanvasMouseUp
MouseUp ==
  /\ HasCanvas
  /\ inputs < MaxInputs
  /\ inputs' = inputs + 1
  /\ LET clicked == IF ~hasDragged /\ draggedNode # 0 THEN draggedNode ELSE 0
         intent == IF clicked # 0 THEN ClickIntent(clicked) ELSE "none"
         request == ClickRequest(clicked, intent)
     IN /\ Len(fetches) + Len(request) <= MaxInFlight
        /\ fetches' = fetches \o request
        /\ latest' = IF request # << >> THEN request[1] ELSE latest
        /\ UNCHANGED <<shown, wanted>>
        /\ selectedNode' = IF clicked # 0 THEN clicked ELSE selectedNode
        /\ clicks' = IF clicked # 0
                     THEN LastTwo(Append(clicks, [node |-> clicked,
                                                  intent |-> intent]))
                     ELSE clicks
        /\ ev' = Event("up", clicked, intent, "none", FALSE)
  /\ isDragging' = FALSE
  /\ draggedNode' = 0
  /\ hasDragged' = FALSE
  /\ isPanning' = FALSE
  /\ UNCHANGED <<mounted, rect, dataVars, pinnedNodes, hoveredNode,
                 lastPanPosition, dragOffset, mouseDownPos, viewVars,
                 loopVars, pageVars, ticks, userPinned, pointer, gest>>
  /\ Render(canvas, effectTimer, FALSE)

\* A leave that ends the drag but keeps the node that was pressed.
MouseLeaveKeepsNode ==
  /\ HasCanvas
  /\ inputs < MaxInputs
  /\ inputs' = inputs + 1
  /\ IF isDragging
     THEN /\ isDragging' = FALSE
          /\ draggedNode' = draggedNode
          /\ dragOffset' = Point(0, 0)
          /\ hasDragged' = FALSE
     ELSE UNCHANGED <<isDragging, draggedNode, dragOffset, hasDragged>>
  /\ hoveredNode' = 0
  /\ ev' = Event("leave", 0, IF isDragging THEN "dragEnd" ELSE "none", "none",
                 FALSE)
  /\ UNCHANGED <<mounted, rect, dataVars, pinnedNodes, selectedNode,
                 isPanning, lastPanPosition, mouseDownPos, viewVars, loopVars,
                 fetches, pageVars, ticks, userPinned, ghostVars>>
  /\ Render(canvas, effectTimer, FALSE)
  /\ UNCHANGED <<latest, shown, wanted>>

\* handleCanvasMouseLeave
MouseLeave ==
  /\ HasCanvas
  /\ inputs < MaxInputs
  /\ inputs' = inputs + 1
  /\ IF isDragging
     THEN /\ isDragging' = FALSE
          /\ draggedNode' = 0
          /\ dragOffset' = Point(0, 0)
          /\ hasDragged' = FALSE
     ELSE UNCHANGED <<isDragging, draggedNode, dragOffset, hasDragged>>
  /\ hoveredNode' = 0
  /\ ev' = Event("leave", 0, IF isDragging THEN "dragEnd" ELSE "none", "none",
                 FALSE)
  /\ UNCHANGED <<mounted, rect, dataVars, pinnedNodes, selectedNode,
                 isPanning, lastPanPosition, mouseDownPos, viewVars, loopVars,
                 fetches, pageVars, ticks, userPinned, ghostVars>>
  /\ Render(canvas, effectTimer, FALSE)
  /\ UNCHANGED <<latest, shown, wanted>>

\* The loop of handleCanvasDoubleClick: the index of the first node under
\* the point that is in the pinned set, 0 if none.
RECURSIVE PinnedHitFrom(_, _, _, _)
PinnedHitFrom(nodes, w, pinned, i) ==
  IF i > Len(nodes) THEN 0
  ELSE IF /\ FLe(Hypot(FSub(w.x, nodes[i].x), FSub(w.y, nodes[i].y)),
                 NodeRadius)
          /\ nodes[i].id \in pinned
       THEN i
  ELSE PinnedHitFrom(nodes, w, pinned, i + 1)

\* simNode.pinned = false, on the first node of that id
ClearPinnedFlag(nodes, id) ==
  LET i == FindNode(nodes, id)
  IN IF i = 0 THEN nodes ELSE [nodes EXCEPT ![i].pinned = FALSE]

\* handleCanvasDoubleClick
DoubleClick(sc) ==
  /\ HasCanvas
  /\ InCanvas(sc)
  /\ inputs < MaxInputs
  /\ inputs' = inputs + 1
  /\ LET worldPos == ScreenToWorld(sc, panOffset, zoom)
         i == PinnedHitFrom(simulationRef.nodes, worldPos, pinnedNodes, 1)
         id == IF i = 0 THEN 0 ELSE simulationRef.nodes[i].id
     IN /\ pinnedNodes' = pinnedNodes \ {id}
        /\ simulationRef' =
             IF i = 0 THEN simulationRef
             ELSE [simulationRef EXCEPT !.nodes = ClearPinnedFlag(@, id)]
        /\ ev' = Event("doubleClick",
                       HitTest(simulationRef.nodes, worldPos),
                       IF i = 0 THEN "none" ELSE "unpin", "none", FALSE)
  /\ pointer' = sc
  /\ UNCHANGED <<mounted, rect, dataVars, pointerVars, viewVars, animationRef,
                 frames, retryTimers, fetches, pageVars, ticks, userPinned,
                 gest, clicks>>
  /\ Render(canvas, effectTimer, FALSE)
  /\ UNCHANGED <<latest, shown, wanted>>

\* A zoom step that is not clamped.
NewZoomUnclamped(z, up) ==
  IF up THEN FScale(z, 11, 10) ELSE FScale(z, 10, 11)

\* Math.max(0.1, Math.min(zoom * zoomFactor, 5)) with zoomFactor 1.1 or 1 / 1.1
NewZoom(z, up) ==
  FMax(Quot(SCALE, 10),
       FMin(IF up THEN FScale(z, 11, 10) ELSE FScale(z, 10, 11), Px(5)))

\* A pan that leaves the new zoom out.
ZoomPanUnscaled(sc, world, newZoom) ==
  Point(FSub(sc.x, world.x), FSub(sc.y, world.y))

\* mouseX - worldBeforeZoom.x * newZoom, mouseY - worldBeforeZoom.y * newZoom
ZoomPan(sc, world, newZoom) ==
  Point(FSub(sc.x, FMul(world.x, newZoom)), FSub(sc.y, FMul(world.y, newZoom)))

\* handleWheel, a listener on the canvas element
Wheel(sc, up) ==
  /\ HasCanvas
  /\ wheelCanvas
  /\ InCanvas(sc)
  /\ inputs < MaxInputs
  /\ inputs' = inputs + 1
  /\ LET worldBeforeZoom == ScreenToWorld(sc, panOffset, zoom)
         newZoom == NewZoom(zoom, up)
     IN /\ zoom' = newZoom
        /\ panOffset' = ZoomPan(sc, worldBeforeZoom, newZoom)
  /\ pointer' = sc
  /\ ev' = Event("wheel", 0, "none", "none", FALSE)
  /\ UNCHANGED <<mounted, rect, dataVars, pinnedNodes, pointerVars, loopVars,
                 fetches, pageVars, ticks, userPinned, gest, clicks>>
  /\ Render(canvas, effectTimer, TRUE)
  /\ UNCHANGED <<latest, shown, wanted>>

\* The window is resized: the layout size changes and handleResize runs.
Resize(size) ==
  /\ mounted
  /\ size # rect
  /\ pageInputs < MaxPageInputs
  /\ pageInputs' = pageInputs + 1
  /\ rect' = size
  /\ ev' = Event("resize", 0, "none", "none", FALSE)
  /\ UNCHANGED <<shortestPath, pathError>>
  /\ UNCHANGED <<mounted, reactVars, loopVars, fetches, pathNodes, pathFinding,
                 ticks, inputs, dataSrc, userPinned, ghostVars>>
  /\ Render(IF HasCanvas /\ size.width > 0 /\ size.height > 0
            THEN size ELSE canvas, effectTimer, FALSE)
  /\ UNCHANGED <<latest, shown, wanted>>

----------------------------------------------------------------------------
(* The page: the shortest-path search and the teardown *)

\* findShortestPath of the page up to its await: the path props are set to
\* new empty arrays, so the path effect of the view reloads the network.
FindPathStart ==
  /\ mounted
  /\ ~pathFinding
  /\ pageInputs < MaxPageInputs
  /\ Len(fetches) < MaxInFlight
  /\ pageInputs' = pageInputs + 1
  /\ pathFinding' = TRUE
  /\ pathError' = "none"
  /\ shortestPath' = << >>
  /\ pathNodes' = EmptyGraph
  /\ StartLoad
  /\ ev' = Event("findPath", 0, "none", "none", FALSE)
  /\ UNCHANGED <<mounted, rect, networkData, dataSrc, mainUser, pointerVars,
                 viewVars, loopVars, ticks, inputs, ghostVars>>
  /\ Render(canvas, effectTimer, FALSE)

\* The message of setPathError for a successful answer with an empty path.
NoPathError == "No path found between these users"

\* A search that leaves the path error as it was.
PathErrorKept(g, failed) == pathError

\* setPathError in the try block (an empty path) and in the catch block.
PathErrorAfter(g, failed) ==
  IF failed THEN "Failed to find path"
  ELSE IF Len(g.nodes) = 0 THEN NoPathError ELSE pathError

\* findShortestPath after its await: the try block with the path graph g of
\* a successful answer (failed = FALSE), or the catch block (failed = TRUE,
\* g empty), and the finally block.  The path effect of the view shows a
\* non-empty path and reloads the network for an empty one.
PathDone(g, failed) ==
  /\ pathFinding
  /\ pathFinding' = FALSE
  /\ shortestPath' = g.nodes
  /\ pathError' = PathErrorAfter(g, failed)
  /\ ev' = Event(IF failed THEN "pathFail" ELSE "pathResult", 0, "none",
                 "path", FALSE)
  /\ IF ~mounted
     THEN /\ pathNodes' = pathNodes
          /\ UNCHANGED <<mounted, reactVars, loopVars, canvas, rect,
                         wheelCanvas, effectTimer, fetches, ticks, inputs,
                         pageInputs, dataSrc, userPinned, ghostVars,
                         latest, shown,
                         wanted>>
     ELSE /\ pathNodes' = g
          /\ IF Len(g.nodes) > 0
             THEN /\ expandedNodes' = {}
                  /\ networkData' = g
                  /\ dataSrc' = "path"
                  /\ UNCHANGED <<loading, error, pinnedNodes, userPinned,
                                 fetches, latest>>
                  /\ shown' = {}
                  /\ UNCHANGED wanted
             ELSE /\ Len(fetches) < MaxInFlight
                  /\ StartLoad
                  /\ UNCHANGED <<networkData, dataSrc>>
          /\ UNCHANGED <<mounted, rect, mainUser, pointerVars, viewVars,
                         loopVars, ticks, inputs, pageInputs, ghostVars>>
          /\ Render(canvas, effectTimer, FALSE)

\* findShortestPath after its await, with the path graph g of a successful
\* answer (empty: no path).
PathResult(g) == PathDone(g, FALSE)

\* findShortestPath after a non-OK response or a thrown error.
PathFailed == PathDone(EmptyGraph, TRUE)

\* resetShortestPath of the page, offered while a path is shown.
ResetPath ==
  /\ mounted
  /\ Len(pathNodes.nodes) > 0
  /\ pageInputs < MaxPageInputs
  /\ Len(fetches) < MaxInFlight
  /\ pageInputs' = pageInputs + 1
  /\ shortestPath' = << >>
  /\ pathError' = "none"
  /\ pathNodes' = EmptyGraph
  /\ StartLoad
  /\ ev' = Event("resetPath", 0, "none", "none", FALSE)
  /\ UNCHANGED <<mounted, rect, networkData, dataSrc, mainUser, pointerVars,
                 viewVars, loopVars, pathFinding, ticks, inputs, ghostVars>>
  /\ Render(canvas, effectTimer, FALSE)

\* handleStartOver of the page unmounts the view: the cleanups cancel the
\* pending frame, clear the timer of Effect 2 and remove the listeners.
Teardown ==
  /\ mounted
  /\ pageInputs < MaxPageInputs
  /\ pageInputs' = pageInputs + 1
  /\ mounted' = FALSE
  /\ LET cancelled == CancelFrame(TheLoop)
     IN /\ animationRef' = cancelled.anim
        /\ frames' = cancelled.frames
  /\ effectTimer' = << >>
  /\ wheelCanvas' = FALSE
  /\ canvas' = DefaultCanvas
  /\ shortestPath' = << >>
  /\ pathError' = "none"
  /\ pathNodes' = EmptyGraph
  /\ ev' = Event("teardown", 0, "none", "none", FALSE)
  /\ UNCHANGED <<reactVars, simulationRef, rect, retryTimers, fetches,
                 pathFinding, ticks, inputs, dataSrc, userPinned, ghostVars>>
  /\ UNCHANGED <<latest, shown, wanted>>

----------------------------------------------------------------------------
(* Specification *)

Next ==
  \/ \E id \in 1..MaxFrameIds : Frame(id)
  \/ EffectTimerFires
  \/ \E k \in 1..Len(retryTimers) : RetryTimerFires(k)
  \/ \E i \in 1..Len(fetches) : Orphaned(i)
  \/ \E i \in 1..Len(fetches), g \in NetworkGraphs : LoadOk(i, g)
  \/ \E i \in 1..Len(fetches) : LoadFail(i)
  \/ \E i \in 1..Len(fetches), g \in NetworkGraphs : ExpandOk(i, g)
  \/ \E i \in 1..Len(fetches), g \in NetworkGraphs : CollapseOk(i, g)
  \/ \E i \in 1..Len(fetches) : FriendFail(i)
  \/ \E sc \in DownPoints : MouseDown(sc)
  \/ \E sc \in MovePoints : MouseMove(sc)
  \/ MouseUp
  \/ MouseLeave
  \/ \E sc \in DownPoints : DoubleClick(sc)
  \/ \E sc \in DownPoints, up \in BOOLEAN : Wheel(sc, up)
  \/ \E size \in RectSizes : Resize(size)
  \/ FindPathStart
  \/ \E g \in PathGraphs \cup {EmptyGraph} : PathResult(g)
  \/ PathFailed
  \/ ResetPath
  \/ Teardown

Spec == Init /\ [][Next]_vars

----------------------------------------------------------------------------
(* Scenarios.  The state of the simulation depends on the whole history of *)
(* a run, so the claims are checked in scenarios: each one starts from     *)
(* Init and runs a part of the actions of Next on a part of their inputs.  *)

\* The loop and its restarts: loads, the path display, resizes to a narrow
\* and to an empty viewport with the deferred retries, and the teardown.
NextLoop ==
  \/ \E id \in 1..MaxFrameIds : Frame(id)
  \/ EffectTimerFires
  \/ \E k \in 1..Len(retryTimers) : RetryTimerFires(k)
  \/ \E i \in 1..Len(fetches) : Orphaned(i)
  \/ \E i \in 1..Len(fetches) : LoadOk(i, GraphFull)
  \/ \E i \in 1..Len(fetches) : LoadFail(i)
  \/ \E size \in RectSizes : Resize(size)
  \/ FindPathStart
  \/ \E g \in PathGraphs \cup {EmptyGraph} : PathResult(g)
  \/ ResetPath
  \/ Teardown

SpecLoop == Init /\ [][NextLoop]_vars

\* Pointer gestures and clicks: the load answers with the focal user and
\* one friend, an expand with the friend's friend, a collapse without it.
NextClick ==
  \/ \E id \in 1..MaxFrameIds : Frame(id)
  \/ EffectTimerFires
  \/ \E i \in 1..Len(fetches) : LoadOk(i, GraphPair)
  \/ \E i \in 1..Len(fetches) : ExpandOk(i, GraphFull)
  \/ \E i \in 1..Len(fetches) : CollapseOk(i, GraphPair)
  \/ \E i \in 1..Len(fetches) : FriendFail(i)
  \/ \E sc \in DownPoints : MouseDown(sc)
  \/ \E sc \in MovePoints : MouseMove(sc)
  \/ MouseUp
  \/ MouseLeave

SpecClick == Init /\ [][NextClick]_vars

\* Pinning: drags of nodes, double-clicks on nodes and a reload of the
\* network (the path search of the page starts one).
NextPin ==
  \/ \E id \in 1..MaxFrameIds : Frame(id)
  \/ EffectTimerFires
  \/ \E i \in 1..Len(fetches) : LoadOk(i, GraphPair)
  \/ \E sc \in NodePoints : MouseDown(sc)
  \/ \E sc \in MovePoints : MouseMove(sc)
  \/ \E sc \in NodePoints : DoubleClick(sc)
  \/ FindPathStart

SpecPin == Init /\ [][NextPin]_vars

\* The tick as a function of the simulation state: the view shows the
\* network of the focal user and one friend, and the node data is drawn from
\* finite and non-finite positions and velocities, pinned or not, among
\* them coincident nodes.
TickCoords == {NaN, Px(20), Px(70)}

TickSpeeds == {NaN, 0, 150}

TickNodes(id) ==
  {NewSimNode(id, x, y, vx, 0, pinned) :
     x \in TickCoords, y \in {NaN, Px(50)}, vx \in TickSpeeds,
     pinned \in BOOLEAN}

InitTick ==
  /\ mounted = TRUE
  /\ networkData = GraphPair
  /\ loading = FALSE
  /\ error = FALSE
  /\ mainUser = FocalId
  /\ expandedNodes = {}
  /\ pinnedNodes \in {{}, {2}}
  /\ hoveredNode = 0
  /\ selectedNode = 0
  /\ zoom = SCALE
  /\ panOffset = Point(0, 0)
  /\ isPanning = FALSE
  /\ lastPanPosition = Point(0, 0)
  /\ isDragging = FALSE
  /\ draggedNode = 0
  /\ dragOffset = Point(0, 0)
  /\ mouseDownPos = Point(0, 0)
  /\ hasDragged = FALSE
  /\ animationRef = 1
  /\ \E a \in TickNodes(1), b \in TickNodes(2) :
       simulationRef = [nodes |-> <<a, b>>, links |-> GraphPair.links]
  /\ canvas = Size(Px(100), Px(100))
  /\ rect = Size(Px(100), Px(100))
  /\ wheelCanvas = FALSE
  /\ frames = {1}
  /\ effectTimer = << >>
  /\ retryTimers = << >>
  /\ fetches = << >>
  /\ pathNodes = EmptyGraph
  /\ pathFinding = FALSE
  /\ shortestPath = << >>
  /\ pathError = "none"
  /\ ticks = 0
  /\ inputs = 0
  /\ pageInputs = 0
  /\ pointer = Point(0, 0)
  /\ gest = [hit |-> 0, x |-> 0, y |-> 0, zoom |-> SCALE,
             pan |-> Point(0, 0), far |-> FALSE]
  /\ clicks = << >>
  /\ dataSrc = "load"
  /\ latest = [kind |-> "load", node |-> 0, expanded |-> {}]
  /\ shown = {}
  /\ wanted = networkData
  /\ userPinned = {}
  /\ ev = Event("mount", 0, "none", "none", FALSE)

NextTick == \E id \in 1..MaxFrameIds : Frame(id)

SpecTick == InitTick /\ [][NextTick]_vars

\* The wheel: the view shows the network of the focal user and one friend
\* after their first reconciliation, the wheel listener is on the canvas,
\* and the view has been zoomed by wheel steps at the origin and panned by
\* a drag of the background.
RECURSIVE ZoomSteps(_, _, _)
ZoomSteps(z, up, n) ==
  IF n = 0 THEN {z} ELSE {z} \cup ZoomSteps(NewZoom(z, up), up, n - 1)

ZoomLevels ==
  ZoomSteps(SCALE, TRUE, MaxZoomSteps) \cup ZoomSteps(SCALE, FALSE, MaxZoomSteps)

ZoomPans == {Point(0, 0), Point(Px(30), Px(-10))}

WheelPoints == {Point(0, 0), Point(Px(73), Px(20))}

InitZoom ==
  /\ mounted = TRUE
  /\ networkData = GraphPair
  /\ loading = FALSE
  /\ error = FALSE
  /\ mainUser = FocalId
  /\ expandedNodes = {}
  /\ pinnedNodes = {}
  /\ hoveredNode = 0
  /\ selectedNode = 0
  /\ zoom \in ZoomLevels
  /\ panOffset \in ZoomPans
  /\ isPanning = FALSE
  /\ lastPanPosition = Point(0, 0)
  /\ isDragging = FALSE
  /\ draggedNode = 0
  /\ dragOffset = Point(0, 0)
  /\ mouseDownPos = Point(0, 0)
  /\ hasDragged = FALSE
  /\ animationRef = 1
  /\ simulationRef =
       [nodes |-> << NewSimNode(1, Px(50) + 14, Px(50), 14, 0, FALSE),
                     NewSimNode(2, Px(20), Px(50), -14, 0, FALSE) >>,
        links |-> GraphPair.links]
  /\ canvas = Size(Px(100), Px(100))
  /\ rect = Size(Px(100), Px(100))
  /\ wheelCanvas = TRUE
  /\ frames = {1}
  /\ effectTimer = << >>
  /\ retryTimers = << >>
  /\ fetches = << >>
  /\ pathNodes = EmptyGraph
  /\ pathFinding = FALSE
  /\ shortestPath = << >>
  /\ pathError = "none"
  /\ ticks = 0
  /\ inputs = 0
  /\ pageInputs = 0
  /\ pointer = Point(0, 0)
  /\ gest = [hit |-> 0, x |-> 0, y |-> 0, zoom |-> SCALE,
             pan |-> Point(0, 0), far |-> FALSE]
  /\ clicks = << >>
  /\ dataSrc = "load"
  /\ latest = [kind |-> "load", node |-> 0, expanded |-> {}]
  /\ shown = {}
  /\ wanted = networkData
  /\ userPinned = {}
  /\ ev = Event("up", 0, "none", "none", FALSE)

NextZoom == \E sc \in WheelPoints, up \in BOOLEAN : Wheel(sc, up)

SpecZoom == InitZoom /\ [][NextZoom]_vars

\* The endpoints: every request is answered from a database of up to three
\* users whose friendships are stored in one direction, in both, or twice,
\* among them a friendship of a user with itself and a database that does
\* not hold the focal user.
RelPairs == {<<1, 2>>, <<2, 1>>, <<2, 3>>, <<1, 1>>}

UserLists == {<<3, 2, 1>>, <<2, 3>>}

Databases ==
  {db \in [users : UserLists,
           rels : UNION {[1..k -> RelPairs] : k \in 0..MaxRels}] :
     \A k \in 1..Len(db.rels) :
       db.rels[k][1] \in SeqRange(db.users) /\ db.rels[k][2] \in SeqRange(db.users)}

\* fetchNetworkData after its await, answered by GET from the database db.
ServerLoad(i, db) ==
  LET res == NetworkGet(db, FocalId)
  IN IF res.status = 200 THEN LoadOk(i, res.networkData) ELSE LoadFail(i)

\* expandFriendNetwork / collapseFriendNetwork after their await, answered
\* by POST from the database db with the expanded set of the request.
ServerFriend(i, db) ==
  /\ fetches[i].kind \in {"expand", "collapse"}
  /\ LET res == NetworkPost(db, FocalId, fetches[i].expanded)
     IN IF res.status = 200
        THEN FriendOk(i, res.networkData, fetches[i].kind)
        ELSE FriendFail(i)

NextServer ==
  \/ \E i \in 1..Len(fetches), db \in Databases : ServerLoad(i, db)
  \/ \E i \in 1..Len(fetches), db \in Databases : ServerFriend(i, db)
  \/ EffectTimerFires
  \/ \E sc \in NodePoints : MouseDown(sc)
  \/ MouseUp

SpecServer == Init /\ [][NextServer]_vars

\* Requests that overlap: the loads of the mount, a reload started by the
\* path search of the page and the path it shows, and expand and collapse
\* requests of clicks.
NextFetch ==
  \/ EffectTimerFires
  \/ \E i \in 1..Len(fetches) : LoadOk(i, GraphPair)
  \/ \E i \in 1..Len(fetches) : ExpandOk(i, GraphFull)
  \/ \E i \in 1..Len(fetches) : CollapseOk(i, GraphPair)
  \/ \E sc \in NodePoints : MouseDown(sc)
  \/ MouseUp
  \/ FindPathStart
  \/ PathResult(GraphPath)

SpecFetch == Init /\ [][NextFetch]_vars

\* The pointer 30 pixels to the right of the last pointer-down.
FarPoint == Point(mouseDownPos.x + Px(30), mouseDownPos.y)

\* Pins and requests: drags that pin nodes, clicks with their expand and
\* collapse requests, and a reload started by the path search of the page.
NextPinFetch ==
  \/ EffectTimerFires
  \/ \E i \in 1..Len(fetches) : LoadOk(i, GraphPair)
  \/ \E i \in 1..Len(fetches) : ExpandOk(i, GraphFull)
  \/ \E i \in 1..Len(fetches) : CollapseOk(i, GraphPair)
  \/ \E sc \in NodePoints : MouseDown(sc)
  \/ MouseMove(FarPoint)
  \/ MouseUp
  \/ FindPathStart

SpecPinFetch == Init /\ [][NextPinFetch]_vars

\* Keeping a pin: the view shows the network of the focal user and one
\* friend, the friend has been dragged and released and the loop reconciled,
\* so the friend is pinned. Then the simulation ticks, the loop is reconciled,
\* nodes are clicked, expanded and collapsed, the view is panned and zoomed,
\* nodes are double-clicked and the network is reloaded.
InitKeep ==
  /\ mounted = TRUE
  /\ networkData = GraphPair
  /\ loading = FALSE
  /\ error = FALSE
  /\ mainUser = FocalId
  /\ expandedNodes = {}
  /\ pinnedNodes = {2}
  /\ hoveredNode = 1
  /\ selectedNode = 0
  /\ zoom = SCALE
  /\ panOffset = Point(0, 0)
  /\ isPanning = FALSE
  /\ lastPanPosition = Point(0, 0)
  /\ isDragging = FALSE
  /\ draggedNode = 0
  /\ dragOffset = Point(0, 0)
  /\ mouseDownPos = Point(Px(20), Px(50))
  /\ hasDragged = FALSE
  /\ animationRef = 2
  /\ simulationRef =
       [nodes |-> << NewSimNode(1, Px(50) + 41, Px(50), 27, 0, FALSE),
                     NewSimNode(2, Px(20), Px(50), 0, 0, TRUE) >>,
        links |-> GraphPair.links]
  /\ canvas = Size(Px(100), Px(100))
  /\ rect = Size(Px(100), Px(100))
  /\ wheelCanvas = FALSE
  /\ frames = {2}
  /\ effectTimer = << >>
  /\ retryTimers = << >>
  /\ fetches = << >>
  /\ pathNodes = EmptyGraph
  /\ pathFinding = FALSE
  /\ shortestPath = << >>
  /\ pathError = "none"
  /\ ticks = 0
  /\ inputs = 0
  /\ pageInputs = 0
  /\ pointer = Point(Px(50), Px(50))
  /\ gest = [hit |-> 2, x |-> Px(20), y |-> Px(50), zoom |-> SCALE,
             pan |-> Point(0, 0), far |-> TRUE]
  /\ clicks = << >>
  /\ dataSrc = "load"
  /\ latest = [kind |-> "load", node |-> 0, expanded |-> {}]
  /\ shown = {}
  /\ wanted = networkData
  /\ userPinned = {2}
  /\ ev = Event("effectTimer", 0, "none", "load", TRUE)

NextKeep ==
  \/ Frame(1)
  \/ EffectTimerFires
  \/ \E i \in 1..Len(fetches) : LoadOk(i, GraphPair)
  \/ \E i \in 1..Len(fetches) : LoadFail(i)
  \/ \E i \in 1..Len(fetches) : ExpandOk(i, GraphFull)
  \/ \E i \in 1..Len(fetches) : CollapseOk(i, GraphPair)
  \/ \E sc \in DownPoints : MouseDown(sc)
  \/ MouseMove(FarPoint)
  \/ MouseUp
  \/ \E sc \in NodePoints : DoubleClick(sc)
  \/ Wheel(CornerPoint, TRUE)
  \/ FindPathStart

SpecKeep == InitKeep /\ [][NextKeep]_vars

\* Two friends: the network of the focal user and two friends is loaded, the
\* friends are clicked, and the expansions are answered in any order.
NextTwo ==
  \/ EffectTimerFires
  \/ \E i \in 1..Len(fetches) : LoadOk(i, GraphStar)
  \/ \E i \in 1..Len(fetches) : ExpandOk(i, GraphFull)
  \/ \E i \in 1..Len(fetches) : CollapseOk(i, GraphStar)
  \/ \E sc \in NodePoints : MouseDown(sc)
  \/ MouseUp

SpecTwo == Init /\ [][NextTwo]_vars

\* Retries: the window is resized to an empty viewport and back while the
\* loads and an expansion are answered, and the deferred retries fire.
NextRetry ==
  \/ EffectTimerFires
  \/ \E k \in 1..Len(retryTimers) : RetryTimerFires(k)
  \/ \E i \in 1..Len(fetches) : LoadOk(i, GraphPair)
  \/ \E i \in 1..Len(fetches) : ExpandOk(i, GraphFull)
  \/ \E size \in {Size(0, 0), Size(Px(100), Px(100))} : Resize(size)
  \/ \E sc \in NodePoints : MouseDown(sc)
  \/ MouseUp

SpecRetry == Init /\ [][NextRetry]_vars

\* Showing data: loads and the path display, with the loop running.  The
\* timer of Effect 2 fires 50 ms after it is set, and every request is
\* answered.
NextShow ==
  \/ Frame(animationRef)
  \/ EffectTimerFires
  \/ \E i \in 1..Len(fetches) : LoadOk(i, GraphPair)
  \/ FindPathStart
  \/ PathResult(GraphPath)
  \/ ResetPath

\* The view stays mounted here, so EffectTimerFires is enabled exactly while
\* the timer is pending and a load can be answered exactly while a request is
\* in flight, and each of them ends that: weak fairness of the two actions
\* is that the timer is not pending for ever and no request is in flight for
\* ever.
FairShow ==
  /\ []<>(effectTimer = << >>)
  /\ []<>(fetches = << >>)
  /\ WF_vars(PathResult(GraphPath))

SpecShow == Init /\ [][NextShow]_vars /\ FairShow

\* Path searches of the page: a search finds a path, finds none or fails,
\* the path is reset, and the page starts over, while the view loads and
\* shows what the searches leave.
NextPath ==
  \/ Frame(animationRef)
  \/ EffectTimerFires
  \/ \E i \in 1..Len(fetches) : LoadOk(i, GraphPair)
  \/ FindPathStart
  \/ \E g \in PathGraphs \cup {EmptyGraph} : PathResult(g)
  \/ PathFailed
  \/ ResetPath
  \/ Teardown

SpecPath == Init /\ [][NextPath]_vars

----------------------------------------------------------------------------
(* Claims *)

\* The last action ran a tick of the simulation: an animation frame with the
\* canvas mounted (without it the callback returns at once), or a
\* reconciliation, which starts the loop with a tick.
Ticked == (ev.op = "frame" /\ HasCanvas) \/ ev.reconciled

\* C1: after any sequence of reconciliations, animation frames and teardown
\* there is never more than one pending animation-frame callback, and the
\* pending one is the one animationRef names.
C1_OneLoop ==
  /\ Cardinality(frames) <= 1
  /\ frames \subseteq {animationRef}

\* A reconciliation restarted the loop while the frame of the loop before
\* had not fired: it got the second frame id and is the only one pending.
C1_Witness ==
  /\ ev.reconciled
  /\ ticks = 0
  /\ animationRef = 2
  /\ frames = {2}

\* C2: a tick leaves the x and y of every node that is pinned (by its flag
\* or by the pinned set) at the time of the tick unchanged, and its vx and vy
\* are 0 after the tick.  A reconciliation keeps the nodes it knows by id and
\* then ticks; an animation frame ticks the nodes in place.
C2_PinnedStay ==
  [][\A i \in 1..Len(simulationRef.nodes),
        j \in 1..Len(simulationRef'.nodes) :
        (/\ Ticked'
         /\ simulationRef'.nodes[j].id = simulationRef.nodes[i].id
         /\ IsPinned(simulationRef.nodes[i], pinnedNodes))
        => /\ simulationRef'.nodes[j].x = simulationRef.nodes[i].x
           /\ simulationRef'.nodes[j].y = simulationRef.nodes[i].y
           /\ simulationRef'.nodes[j].vx = 0
           /\ simulationRef'.nodes[j].vy = 0]_vars

\* A tick has run on a pinned node that a spring ties to a moving node.
C2_Witness ==
  /\ Ticked
  /\ \E i, k \in 1..Len(simulationRef.nodes) :
       /\ IsPinned(simulationRef.nodes[i], pinnedNodes)
       /\ simulationRef.nodes[i].vx = 0
       /\ ~IsPinned(simulationRef.nodes[k], pinnedNodes)
       /\ simulationRef.nodes[k].vx # 0

C4_Carry ==
  (rect.width > 0 /\ rect.height > 0) =>
    \A g \in NetworkGraphs \cup PathGraphs :
      LET new == NewSimNodes(simulationRef.nodes, g.nodes, pinnedNodes,
                             mainUser, rect.width, rect.height)
      IN \A j \in 1..Len(g.nodes) :
           LET e == ExistingNode(simulationRef.nodes, g.nodes[j])
           IN IF e # 0 /\ IsFinite(simulationRef.nodes[e].x)
                       /\ IsFinite(simulationRef.nodes[e].y)
              THEN /\ new[j].id = g.nodes[j]
                   /\ new[j].x = simulationRef.nodes[e].x
                   /\ new[j].y = simulationRef.nodes[e].y
                   /\ new[j].vx = simulationRef.nodes[e].vx
                   /\ new[j].vy = simulationRef.nodes[e].vy
                   /\ IsPinned(simulationRef.nodes[e], pinnedNodes)
                        => new[j].pinned
              ELSE /\ new[j].id = g.nodes[j]
                   /\ new[j].vx = 0
                   /\ new[j].vy = 0
                   /\ new[j].pinned = (g.nodes[j] \in pinnedNodes)

\* A reconciliation has kept a node pinned that is not in the pinned set
\* (its flag was carried over), next to a node that is moving.
C4_Witness ==
  /\ ev.reconciled
  /\ \E i, k \in 1..Len(simulationRef.nodes) :
       /\ simulationRef.nodes[i].pinned
       /\ simulationRef.nodes[i].id \notin pinnedNodes
       /\ simulationRef.nodes[k].vx # 0

\* C5 as stated: after a tick every node that is not pinned has
\* 20 <= x <= canvasWidth - 20 and 20 <= y <= canvasHeight - 20.
C5_InBounds ==
  Ticked =>
    \A i \in 1..Len(simulationRef.nodes) :
      ~IsPinned(simulationRef.nodes[i], pinnedNodes) =>
        /\ Px(20) <= simulationRef.nodes[i].x
        /\ simulationRef.nodes[i].x <= canvas.width - Px(20)
        /\ Px(20) <= simulationRef.nodes[i].y
        /\ simulationRef.nodes[i].y <= canvas.height - Px(20)

\* C5, amended: after a tick every node that is not pinned has
\* 20 <= x <= max(20, canvasWidth - 20) and 20 <= y <= max(20,
\* canvasHeight - 20): the bounds of the claim for a canvas of 40 pixels or
\* more on the axis, and the coordinate 20 for a smaller one.
C5_Clamped ==
  Ticked =>
    \A i \in 1..Len(simulationRef.nodes) :
      ~IsPinned(simulationRef.nodes[i], pinnedNodes) =>
        /\ Px(20) <= simulationRef.nodes[i].x
        /\ simulationRef.nodes[i].x
             <= (IF canvas.width >= Px(40) THEN canvas.width - Px(20)
                 ELSE Px(20))
        /\ Px(20) <= simulationRef.nodes[i].y
        /\ simulationRef.nodes[i].y
             <= (IF canvas.height >= Px(40) THEN canvas.height - Px(20)
                 ELSE Px(20))

\* A tick has run on nodes that are not pinned in a canvas less than 40
\* pixels wide.
C5_Witness ==
  /\ Ticked
  /\ canvas.width < Px(40)
  /\ \E i \in 1..Len(simulationRef.nodes) :
       ~IsPinned(simulationRef.nodes[i], pinnedNodes)

\* C6: a pointer-up emits a click on node n exactly when the most recent
\* pointer-down hit n and the pointer has not moved more than 5 pixels from
\* the position of that pointer-down; otherwise it emits no click.
C6_ClickIffStill ==
  ev.op = "up" =>
    ev.node = (IF gest.hit # 0 /\ ~gest.far THEN gest.hit ELSE 0)

C8_DragMoves ==
  (ev.op = "up" /\ gest.hit # 0 /\ gest.far
     /\ FindNode(simulationRef.nodes, gest.hit) # 0) =>
    LET node == NodeOf(simulationRef.nodes, gest.hit)
    IN /\ gest.hit \in pinnedNodes
       /\ node.x = gest.x + FDiv(pointer.x - mouseDownPos.x, gest.zoom)
       /\ node.y = gest.y + FDiv(pointer.y - mouseDownPos.y, gest.zoom)

\* C9: after a double-click on a node, the node is not pinned: its id is
\* not in the pinned set and its pinned flag is false.
C9_DoubleClickUnpins ==
  (ev.op = "doubleClick" /\ ev.node # 0) =>
    ~IsPinned(NodeOf(simulationRef.nodes, ev.node), pinnedNodes)

\* C10: once the result of a full reload has been reconciled, no node is
\* pinned, by the set or by its flag, but the nodes dragged since that
\* reload began.
C10_ReloadUnpins ==
  (ev.reconciled /\ ev.src = "load") =>
    /\ pinnedNodes \subseteq userPinned
    /\ \A i \in 1..Len(simulationRef.nodes) :
         simulationRef.nodes[i].pinned =>
           simulationRef.nodes[i].id \in userPinned

\* C11: once every network request has been answered, none of them with a
\* failure, the graph shown and the expanded set are those of the request
\* that began last (here a load answers with GraphPair and an empty expanded
\* set, an expansion with GraphFull, a collapse with GraphPair), and the
\* focal user is the one the loads name.
C11_LatestWins ==
  (mounted /\ fetches = << >> /\ ~error
     /\ ev.op \in {"loadOk", "expandOk", "collapseOk"}) =>
    /\ networkData = (IF latest.kind = "expand" THEN GraphFull ELSE GraphPair)
    /\ expandedNodes = latest.expanded
    /\ mainUser = FocalId

\* C12: from the teardown on, no animation-frame callback is pending after
\* any step, and no step writes the simulation's nodes and links, the
\* answers of the requests and the retries that were in flight included.
C12_TornDown ==
  [][~mounted' => (frames' = {} /\ animationRef' = 0
                     /\ simulationRef' = simulationRef)]_vars

\* After the teardown of a view that had nodes, a zero-viewport retry that
\* was pending at the teardown has fired.
C12_Witness ==
  /\ ~mounted
  /\ ev.op = "retryTimer"
  /\ Len(simulationRef.nodes) > 0

\* C13: the zoom is always between 0.1 and 5; a wheel event turns it into
\* 1.1 times or 1 / 1.1 times its value, clamped to that interval, and any
\* other step that changes it sets it to 1.
C13_ZoomInRange ==
  /\ [](Quot(SCALE, 10) <= zoom /\ zoom <= Px(5))
  /\ [][zoom' # zoom =>
          \/ /\ ev'.op = "wheel"
             /\ \/ zoom' = FMax(Quot(SCALE, 10),
                                FMin(Quot(zoom * 11, 10), Px(5)))
                \/ zoom' = FMax(Quot(SCALE, 10),
                                FMin(Quot(zoom * 10, 11), Px(5)))
          \/ zoom' = SCALE]_vars

\* A wheel event has been clamped at 5, and one at 0.1.
C13_Witness ==
  /\ ev.op = "wheel"
  /\ inputs = 2
  /\ zoom \in {Quot(SCALE, 10), Px(5)}

\* C14 as stated: over a wheel event at a screen point, the world
\* coordinate under the point with the zoom and pan after the event equals
\* the one with the zoom and pan before it.
C14_AnchorExact ==
  [][ev'.op = "wheel" =>
       ScreenToWorld(pointer', panOffset', zoom')
         = ScreenToWorld(pointer', panOffset, zoom)]_vars

\* C14, amended: the two world coordinates are equal up to the rounding of
\* the arithmetic, the zoom clamped or not: they differ by no more than one
\* rounding unit of the world coordinate plus one rounding unit of the pan
\* seen at the new zoom.
C14_AnchorKept ==
  [][ev'.op = "wheel" =>
       LET after == ScreenToWorld(pointer', panOffset', zoom')
           before == ScreenToWorld(pointer', panOffset, zoom)
       IN /\ Abs(after.x - before.x) * zoom' <= zoom' + SCALE
          /\ Abs(after.y - before.y) * zoom' <= zoom' + SCALE]_vars

\* A wheel event away from the origin of the screen has been clamped at 5
\* in a view that is panned.
C14_Witness ==
  /\ ev.op = "wheel"
  /\ pointer = Point(Px(73), Px(20))
  /\ zoom = Px(5)
  /\ inputs = 2
  /\ panOffset.x # pointer.x

\* The points the two transforms are composed on: the screen points of the
\* wheel events, and as world points the same and the node positions.
C15_WorldPoints ==
  WheelPoints \cup {Point(simulationRef.nodes[i].x, simulationRef.nodes[i].y) :
                      i \in 1..Len(simulationRef.nodes)}

\* C15 as stated: with the zoom and pan of every state, worldToScreen after
\* screenToWorld gives the screen point back, and screenToWorld after
\* worldToScreen the world point.
C15_InverseExact ==
  /\ \A sc \in WheelPoints :
       WorldToScreen(ScreenToWorld(sc, panOffset, zoom), panOffset, zoom) = sc
  /\ \A w \in C15_WorldPoints :
       ScreenToWorld(WorldToScreen(w, panOffset, zoom), panOffset, zoom) = w

\* C15, amended: each composition gives the point back up to the rounding
\* of the arithmetic: one rounding unit of the result plus one rounding unit
\* of the intermediate point scaled by the zoom.
C15_InverseRounded ==
  /\ \A sc \in WheelPoints :
       LET back == WorldToScreen(ScreenToWorld(sc, panOffset, zoom),
                                 panOffset, zoom)
       IN /\ Abs(back.x - sc.x) * SCALE <= SCALE + zoom
          /\ Abs(back.y - sc.y) * SCALE <= SCALE + zoom
  /\ \A w \in C15_WorldPoints :
       LET back == ScreenToWorld(WorldToScreen(w, panOffset, zoom),
                                 panOffset, zoom)
       IN /\ Abs(back.x - w.x) * zoom <= zoom + SCALE
          /\ Abs(back.y - w.y) * zoom <= zoom + SCALE

\* The view is zoomed out by wheel events at a point away from the origin
\* and its pan is not zero on either axis.
C15_Witness ==
  /\ ev.op = "wheel"
  /\ zoom < SCALE
  /\ panOffset.x # 0
  /\ panOffset.y # 0
  /\ inputs = 3

\* The reconciliation of the graph d in the current state, before the tick
\* that follows it.
C16_Merged(d) ==
  NewSimNodes(simulationRef.nodes, d.nodes, pinnedNodes, mainUser,
              rect.width, rect.height)

\* The node at index i of d has no retained position.
C16_Seeded(d, i) ==
  LET e == ExistingNode(simulationRef.nodes, d.nodes[i])
  IN \/ e = 0
     \/ ~IsFinite(simulationRef.nodes[e].x)
     \/ ~IsFinite(simulationRef.nodes[e].y)

\* C16: in every state with a canvas of positive area and for every graph
\* a reconciliation can be given, a node without a retained position is
\* seeded at the canvas centre if it is the focal node and otherwise on the
\* ring of radius 0.3 * min(width, height) at the angle of its list index
\* (its distance from the centre is the radius, up to the two digits of
\* the cosines and sines);
\* the seed lies in the canvas, and two seeded non-focal nodes differ in
\* their position.
C16_SeedLayout ==
  (rect.width > 0 /\ rect.height > 0) =>
    \A d \in NetworkGraphs \cup PathGraphs :
      LET n == Len(d.nodes)
          merged == C16_Merged(d)
          cx == Quot(rect.width, 2)
          cy == Quot(rect.height, 2)
          r == Quot(3 * (IF rect.width < rect.height THEN rect.width
                         ELSE rect.height), 10)
      IN \A i \in 1..n :
           C16_Seeded(d, i) =>
             /\ IF mainUser # 0 /\ d.nodes[i] = mainUser
                THEN merged[i].x = cx /\ merged[i].y = cy
                ELSE /\ merged[i].x = cx + Quot(CosTable[n][i] * r, SCALE)
                     /\ merged[i].y = cy + Quot(SinTable[n][i] * r, SCALE)
                     /\ LET dx == merged[i].x - cx
                            dy == merged[i].y - cy
                        IN SCALE * Abs(dx * dx + dy * dy - r * r) <= 2 * r * r
             /\ 0 <= merged[i].x /\ merged[i].x <= rect.width
             /\ 0 <= merged[i].y /\ merged[i].y <= rect.height
             /\ \A j \in 1..n :
                  (j # i /\ C16_Seeded(d, j) /\ d.nodes[i] # mainUser
                     /\ d.nodes[j] # mainUser) =>
                    (merged[i].x # merged[j].x \/ merged[i].y # merged[j].y)

\* The second answer of the first load has reconciled its three nodes into
\* the empty simulation of a narrow canvas, before the timer of the first.
C16_Witness ==
  /\ ev.op = "loadOk"
  /\ ev.reconciled
  /\ effectTimer # << >>
  /\ ticks = 0
  /\ pathNodes = EmptyGraph
  /\ Len(simulationRef.nodes) = 3
  /\ rect = Size(Px(30), Px(100))

\* C17: a reconciliation invoked on a mounted canvas of zero width or zero
\* height leaves the simulation as it is, reconciles nothing and schedules
\* one retry with the same data; a retry that fires on a mounted canvas of
\* positive area reconciles its data and leaves the loop running.
C17_ZeroSizeRetry ==
  [][(HasCanvas /\ ev'.op \in {"effectTimer", "retryTimer", "loadOk"}) =>
       IF rect.width <= 0 \/ rect.height <= 0
       THEN /\ simulationRef' = simulationRef
            /\ ~ev'.reconciled
            /\ ev'.op = "effectTimer" =>
                 retryTimers' = Append(retryTimers, effectTimer[1])
            /\ ev'.op = "loadOk" =>
                 retryTimers' = Append(retryTimers,
                                       [data |-> networkData', src |-> "load"])
            /\ ev'.op = "retryTimer" =>
                 \E k \in 1..Len(retryTimers) :
                   retryTimers' = Append(RemoveAt(retryTimers, k),
                                         retryTimers[k])
       ELSE ev'.op = "retryTimer" =>
              /\ ev'.reconciled
              /\ \E k \in 1..Len(retryTimers) :
                   /\ retryTimers' = RemoveAt(retryTimers, k)
                   /\ simulationRef'.links = retryTimers[k].data.links
                   /\ Len(simulationRef'.nodes) = Len(retryTimers[k].data.nodes)
                   /\ \A i \in 1..Len(simulationRef'.nodes) :
                        simulationRef'.nodes[i].id = retryTimers[k].data.nodes[i]
              /\ animationRef' # 0
              /\ animationRef' \in frames']_vars

\* A retry has fired on a canvas of positive area and reconciled.
C17_Witness ==
  /\ ev.op = "retryTimer"
  /\ ev.reconciled
  /\ rect.width > 0
  /\ Len(simulationRef.nodes) > 0
  /\ animationRef \in frames

\* C18: the step of a failed load leaves the error set, the network data
\* empty, no focal user, the expanded and the pinned set empty and loading
\* false; it reconciles nothing, leaves the simulation, the pending frames
\* and the retries as they are and leaves no reconciliation scheduled.
C18_FailedLoad ==
  [][ev'.op = "loadFail" =>
       /\ error'
       /\ networkData' = EmptyGraph
       /\ mainUser' = 0
       /\ expandedNodes' = {}
       /\ pinnedNodes' = {}
       /\ ~loading'
       /\ ~ev'.reconciled
       /\ simulationRef' = simulationRef
       /\ animationRef' = animationRef
       /\ frames' = frames
       /\ retryTimers' = retryTimers
       /\ effectTimer' = << >>]_vars

\* A load has failed while the network of an earlier answer was shown and
\* its simulation was running.
C18_Witness ==
  /\ ev.op = "loadFail"
  /\ error
  /\ Len(simulationRef.nodes) > 0
  /\ animationRef \in frames
  /\ ticks > 0

\* C19: a click on the focal node selects it and sends no expand and no
\* collapse request; the focal node is never in the expanded set, nor in
\* the expanded set a request in flight will apply.
C19_FocalClick ==
  /\ [](FocalId \notin expandedNodes
          /\ \A i \in 1..Len(fetches) :
               fetches[i].node # FocalId /\ FocalId \notin fetches[i].expanded)
  /\ [][(ev'.op = "up" /\ ev'.node = FocalId) =>
          /\ ev'.intent = "select"
          /\ selectedNode' = FocalId
          /\ fetches' = fetches
          /\ expandedNodes' = expandedNodes]_vars

\* The focal node has been clicked while a friend was expanded.
C19_Witness ==
  /\ ev.op = "up"
  /\ ev.node = FocalId
  /\ mainUser = FocalId
  /\ ev.intent = "select"
  /\ expandedNodes # {}

\* C20: a pointer-leave during a drag ends the drag, leaves no dragged node
\* and emits no click; and from a state without a dragged node every step
\* other than a pointer-down on a node leaves none and emits no click, so
\* no pointer-up clicks before a node is pressed again.
C20_LeaveEndsDrag ==
  /\ [][(ev'.op = "leave" /\ isDragging) =>
          /\ ~isDragging'
          /\ draggedNode' = 0
          /\ ev'.node = 0
          /\ clicks' = clicks
          /\ fetches' = fetches
          /\ selectedNode' = selectedNode]_vars
  /\ [][(draggedNode = 0 /\ ~(ev'.op = "down" /\ ev'.node # 0)) =>
          /\ draggedNode' = 0
          /\ ev'.op = "up" =>
               /\ ev'.node = 0
               /\ ev'.intent = "none"
               /\ clicks' = clicks
               /\ fetches' = fetches
               /\ selectedNode' = selectedNode]_vars

\* The pointer has left the canvas during the drag of a node.
C20_Witness ==
  /\ ev.op = "leave"
  /\ ev.intent = "dragEnd"
  /\ gest.hit # 0
  /\ ~isDragging
  /\ draggedNode = 0

\* C21: in the graph of every answer of the load, expand and collapse
\* endpoints no two links join the same unordered pair of nodes.
C21_UniqueLinks ==
  (ev.op \in {"loadOk", "expandOk", "collapseOk"}) =>
    \A i, j \in 1..Len(networkData.links) :
      i # j =>
        {networkData.links[i][1], networkData.links[i][2]}
          # {networkData.links[j][1], networkData.links[j][2]}

\* An expansion has been answered with the two friendships of the friend.
C21_Witness ==
  /\ ev.op = "expandOk"
  /\ Len(networkData.nodes) = 3
  /\ Len(networkData.links) = 2

\* C22: in the graph of every answer of the load, expand and collapse
\* endpoints both ends of every link are nodes of the graph, and the focal
\* user is a node of it.
C22_LinksInGraph ==
  (ev.op \in {"loadOk", "expandOk", "collapseOk"}) =>
    /\ \A i \in 1..Len(networkData.links) :
         /\ \E n \in 1..Len(networkData.nodes) :
              networkData.nodes[n] = networkData.links[i][1]
         /\ \E n \in 1..Len(networkData.nodes) :
              networkData.nodes[n] = networkData.links[i][2]
    /\ \E n \in 1..Len(networkData.nodes) : networkData.nodes[n] = FocalId

\* An expansion has been answered from a database in which the focal user
\* has no friendship left: the graph is the focal user alone.
C22_Witness ==
  /\ ev.op = "expandOk"
  /\ networkData.nodes = <<FocalId>>
  /\ networkData.links = << >>

C24_ExpandedMirrors ==
  (mounted /\ fetches = << >>) => expandedNodes = shown

\* C25: after every pointer-up the view is not dragging, has no dragged
\* node, has the drag-occurred flag false and is not panning.
C25_IdleAfterUp ==
  [][ev'.op = "up" =>
       /\ ~isDragging'
       /\ draggedNode' = 0
       /\ ~hasDragged'
       /\ ~isPanning']_vars

\* A pointer-up has ended a pan of the background.
C25_Witness ==
  /\ ev.op = "up"
  /\ gest.hit = 0
  /\ panOffset # Point(0, 0)
  /\ ~isPanning

\* C26: in every state the view is not panning while a dragged node is set
\* or a drag is under way, and a pointer-down that hits no node leaves the
\* view panning with no dragged node.
C26_Exclusive ==
  /\ [](~(isPanning /\ (draggedNode # 0 \/ isDragging)))
  /\ [][(ev'.op = "down" /\ ev'.node = 0) =>
          (isPanning' /\ draggedNode' = 0 /\ ~isDragging')]_vars

\* C27 as stated: after every pointer-leave the view is idle (not
\* dragging, no dragged node, not panning), and a pointer-move that follows
\* the leave moves no node and leaves the pan offset as it is.
C27_IdleAfterLeave ==
  /\ [][ev'.op = "leave" =>
          (~isDragging' /\ draggedNode' = 0 /\ ~isPanning')]_vars
  /\ [][(ev.op = "leave" /\ ev'.op = "move") =>
          (simulationRef' = simulationRef /\ panOffset' = panOffset)]_vars

\* C27, amended: a pointer-leave during a drag leaves the view not dragging
\* and without a dragged node, and a pointer-move in a state without a
\* dragged node moves no node; a pointer-leave in another state leaves the
\* drag candidate and the pan as they are, and the pointer-move that
\* follows pans by its distance from the pan anchor if the view is panning
\* without a drag candidate.
C27_LeaveEndsDragOnly ==
  /\ [][ev'.op = "leave" =>
          /\ isPanning' = isPanning
          /\ IF isDragging
             THEN ~isDragging' /\ draggedNode' = 0 /\ ~hasDragged'
             ELSE /\ isDragging' = isDragging
                  /\ draggedNode' = draggedNode
                  /\ hasDragged' = hasDragged]_vars
  /\ [][(draggedNode = 0 /\ ev'.op = "move") =>
          simulationRef' = simulationRef]_vars
  /\ [][(ev.op = "leave" /\ ev'.op = "move" /\ isPanning /\ draggedNode = 0) =>
          panOffset' = Point(panOffset.x + pointer'.x - lastPanPosition.x,
                             panOffset.y + pointer'.y - lastPanPosition.y)]_vars

\* The pointer has left the canvas during a pan, and the view still pans.
C27_Witness ==
  /\ ev.op = "leave"
  /\ gest.hit = 0
  /\ draggedNode = 0
  /\ isPanning

\* C28: a pointer-move during the drag of a node puts the node at the world
\* point of the pointer minus the drag offset with velocity (0, 0), leaves
\* every other node as it is, and leaves the node in the pinned set.
C28_DragFollows ==
  [][(ev'.op = "move" /\ isDragging /\ draggedNode # 0) =>
       LET w == ScreenToWorld(pointer', panOffset, zoom)
       IN /\ Len(simulationRef'.nodes) = Len(simulationRef.nodes)
          /\ \A i \in 1..Len(simulationRef.nodes) :
               IF simulationRef.nodes[i].id = draggedNode
               THEN /\ simulationRef'.nodes[i].x = w.x - dragOffset.x
                    /\ simulationRef'.nodes[i].y = w.y - dragOffset.y
                    /\ simulationRef'.nodes[i].vx = 0
                    /\ simulationRef'.nodes[i].vy = 0
                    /\ simulationRef'.nodes[i].id = draggedNode
               ELSE simulationRef'.nodes[i] = simulationRef.nodes[i]
          /\ draggedNode \in pinnedNodes']_vars

\* C29: an id leaves the pinned set only in a double-click on a node of that
\* id or when a load of the network starts or fails; ticks, reconciliations,
\* expand and collapse, clicks, pans and zooms keep every pinned id.
C29_PinnedKept ==
  [][\A n \in pinnedNodes :
       n \notin pinnedNodes' =>
         \/ /\ ev'.op = "doubleClick"
            /\ \E i \in 1..Len(simulationRef.nodes) :
                 /\ simulationRef.nodes[i].id = n
                 /\ LET w == ScreenToWorld(pointer', panOffset, zoom)
                    IN FLe(Hypot(FSub(w.x, simulationRef.nodes[i].x),
                                 FSub(w.y, simulationRef.nodes[i].y)),
                           NodeRadius)
         \/ fetches' = Append(fetches, LoadRequest)
         \/ ev'.op = "loadFail"]_vars

\* A pinned friend has been expanded and collapsed again, and is still pinned.
C29_Witness ==
  /\ ev.op = "collapseOk"
  /\ 2 \in pinnedNodes
  /\ Len(clicks) = 2

\* C30: a pointer-move while panning adds the pointer delta since the previous
\* pointer event to the pan offset, so that the pan offset has changed since
\* the pointer-down by the pointer position minus the pointer-down position,
\* and it changes neither the zoom nor the nodes nor the pinned set.
C30_PanAdds ==
  [][(ev'.op = "move" /\ isPanning) =>
       /\ panOffset' = Point(panOffset.x + (pointer'.x - pointer.x),
                             panOffset.y + (pointer'.y - pointer.y))
       /\ panOffset'.x - gest.pan.x = pointer'.x - mouseDownPos.x
       /\ panOffset'.y - gest.pan.y = pointer'.y - mouseDownPos.y
       /\ zoom' = zoom
       /\ simulationRef' = simulationRef
       /\ pinnedNodes' = pinnedNodes]_vars

\* C31 as stated: a pointer-move while the view is neither dragging nor
\* panning changes no node, nor the pinned set, the expanded set, the zoom or
\* the pan.
C31_HoverOnly ==
  [][(ev'.op = "move" /\ ~isDragging /\ ~isPanning) =>
       UNCHANGED <<simulationRef, pinnedNodes, expandedNodes, zoom,
                   panOffset>>]_vars

\* C31: a pointer-move while the view is neither dragging nor panning, and
\* which does not start a drag, changes no node, nor the pinned set, the
\* expanded set, the zoom or the pan; it sets the hovered node to the node
\* under the pointer.
C31_HoverOnlyUnlessDragStarts ==
  [][(ev'.op = "move" /\ ~isDragging /\ ~isPanning /\ ~isDragging') =>
       /\ UNCHANGED <<simulationRef, pinnedNodes, expandedNodes, zoom,
                      panOffset>>
       /\ hoveredNode' = HitTest(simulationRef.nodes,
                                 ScreenToWorld(pointer', panOffset, zoom))]_vars

\* The pointer has moved over the friend with no button held.
C31_Witness ==
  /\ ev.op = "move"
  /\ ev.intent = "hover"
  /\ draggedNode = 0
  /\ ~isDragging
  /\ ~isPanning
  /\ hoveredNode = 2

\* C32: a failed expand or collapse request sets the error and leaves the
\* network data, the expanded set, the pinned set and the simulation as they
\* are; the request is gone and no other request or retry is started.
C32_FriendFailKeeps ==
  [][ev'.op \in {"expandFail", "collapseFail"} =>
       /\ error'
       /\ UNCHANGED <<networkData, expandedNodes, pinnedNodes, simulationRef,
                      retryTimers>>
       /\ Len(fetches') = Len(fetches) - 1
       /\ \A r \in SeqRange(fetches') : r \in SeqRange(fetches)]_vars

\* An expansion of the friend has failed while the network of the focal user
\* and the friend was in the simulation.
C32_Witness ==
  /\ ev.op = "expandFail"
  /\ ev.node = 2
  /\ error
  /\ networkData = GraphPair
  /\ Len(simulationRef.nodes) = 2

\* C33: once the expansions of two distinct friends have both been clicked
\* and both been answered, the expanded set holds both friends.
C33_BothExpanded ==
  (/\ mounted
   /\ fetches = << >>
   /\ Len(clicks) = 2
   /\ clicks[1].intent = "expand"
   /\ clicks[2].intent = "expand"
   /\ clicks[1].node # clicks[2].node)
  => {clicks[1].node, clicks[2].node} \subseteq expandedNodes

\* The simulation holds the nodes and the links of graph g.
SimIs(sim, g) ==
  /\ {sim.nodes[i].id : i \in 1..Len(sim.nodes)} = SeqRange(g.nodes)
  /\ SeqRange(sim.links) = SeqRange(g.links)

\* C34: when a deferred retry has reconciled and neither a retry nor a
\* reconciliation of Effect 2 is pending, the simulation holds the nodes and
\* the links of the graph of the latest call that was not a retry.
C34_RetryNotStale ==
  (/\ ev.op = "retryTimer"
   /\ ev.reconciled
   /\ retryTimers = << >>
   /\ effectTimer = << >>)
  => SimIs(simulationRef, wanted)

\* C35: while a non-empty path is held (from its delivery until a reset or a
\* new search), the network data is the path graph and the expanded set is
\* empty.
C35_PathShown ==
  (mounted /\ Len(pathNodes.nodes) > 0)
  => (networkData = pathNodes /\ expandedNodes = {})

\* The last step replaced the network data by a non-empty graph, and the
\* canvas is mounted with a positive area.
Replaced ==
  /\ ev.op \in {"loadOk", "expandOk", "collapseOk", "pathResult"}
  /\ dataSrc = ev.src
  /\ HasCanvas
  /\ rect.width > 0
  /\ rect.height > 0

\* C36: after the network data has been replaced by a non-empty graph on a
\* canvas of positive area, the simulation eventually holds the nodes and the
\* links of the network data with the loop running.
C36_EventuallyReconciled ==
  Replaced ~> (SimIs(simulationRef, networkData) /\ frames # {})

\* C37: whenever the canvas is mounted, the wheel listener is on the canvas
\* element now mounted.
C37_WheelRegistered == HasCanvas => wheelCanvas

====
